---- MODULE Spec2Model ----
(***************************************************************************)
(* Edge-side split-computing orchestrator (SCIoT): HTTP server, request    *)
(* handler, variance detector, timing stores and the offloading optimiser. *)
(*                                                                         *)
(* Numbers.  Python floats are modelled by exact integers:                 *)
(*   - optimiser times are ticks of 1/TicksPerSecond seconds;              *)
(*   - stored layer timings are multiples of 1/Scale of a raw unit, where  *)
(*     Scale = 5^MaxReports, so that 0.2*x + 0.8*T = (x + 4*T)/5 is exact  *)
(*     for as many updates as the model performs;                          *)
(*   - the coefficient of variation test is cross-multiplied.              *)
(***************************************************************************)
EXTENDS Integers, Sequences, FiniteSets, TLC

VARIABLES
    \* run_edge.py: "boot" until Edge.initialization has run
    phase,
    \* HttpServer
    best_offloading_layer, devices, client_models, response,
    \* RequestHandler configuration
    local_inference_enabled, local_inference_probability,
    \* JSON stores (OffloadingDataFiles) and the evaluation CSV
    device_inference_times, edge_inference_times, layers_sizes, evaluations,
    \* RequestHandler.variance_detector
    window_size, device_histories, edge_histories,
    device_needs_retest, edge_needs_retest,
    device_variance_layers, edge_variance_layers,
    \* last readout of the detector and last add_*_measurement call
    readout, measured,
    \* history variables
    last_k, n_reports, n_measurements, flagged_since_readout, ewma_run,
    \* simulated_scenario.py: inputs and result of the optimiser
    opt,
    \* MqttClient: task_queue, the worker thread, the messages received so
    \* far and the answers published on the offloading_layer topic
    task_queue, worker, n_messages, published,
    \* the event loop of the HTTP server: the request whose handler holds
    \* the loop's thread, the requests received and not yet answered, and
    \* the number of requests received
    loop_owner, http_inbox, n_requests,
    \* the input image file written by handle_device_input
    input_image,
    \* http_client.py: position of the client in main, the module global
    \* MODEL_NAME, main's locals server_available and best_layer, the number
    \* of completed cycles, the last request with its outcome and the last
    \* run_split_inference
    client_pc, MODEL_NAME, server_available, best_layer, n_cycles,
    client_call, inference,
    \* run_edge.py: position of the process in its start, the content of
    \* the configuration files, HttpServer.offset (a list, empty before the
    \* attribute is set), the number of NTP
    \* synchronisations made and of Timers started, and the time the
    \* server has been listening for, in periods of 600 s
    start_pc, settings, offset, ntp_syncs, ntp_timers, uptime,
    \* one device report on its way: the arguments of
    \* send_inference_result, the buffer posted and what _from_raw makes
    \* of it
    wire,
    \* two device reports handled in both orders: the reports and the
    \* device timing store each order leaves
    pair,
    \* the layer runtimes of the edge: the _interpreter_cache of the
    \* ModelManager in use, the layers it has still to evaluate, and how
    \* often tf.lite.Interpreter was constructed for each layer
    interpreters,
    \* one device report handled by two executions of the handler that
    \* differ in the variance detector or in the draw of random.random()
    twin,
    \* simulation_runner.py: the runner, the client configuration file and
    \* the client processes it starts
    sim

sideVars == << pair, interpreters, twin, sim >>

vars == << phase, best_offloading_layer, devices, client_models, response,
           local_inference_enabled, local_inference_probability,
           device_inference_times, edge_inference_times, layers_sizes,
           evaluations, window_size, device_histories, edge_histories,
           device_needs_retest, edge_needs_retest,
           device_variance_layers, edge_variance_layers, readout, measured,
           last_k, n_reports, n_measurements, flagged_since_readout,
           ewma_run, opt, task_queue, worker, n_messages, published,
           loop_owner, http_inbox, n_requests, input_image,
           client_pc, MODEL_NAME, server_available, best_layer, n_cycles,
           client_call, inference,
           start_pc, settings, offset, ntp_syncs, ntp_timers, uptime, wire, sideVars >>

serverVars == << phase, best_offloading_layer, devices, client_models, response,
                 input_image,
                 local_inference_enabled, local_inference_probability,
                 device_inference_times, edge_inference_times, layers_sizes,
                 evaluations, last_k, n_reports, ewma_run >>

detectorVars == << window_size, device_histories, edge_histories,
                   device_needs_retest, edge_needs_retest,
                   device_variance_layers, edge_variance_layers,
                   readout, measured, flagged_since_readout,
                   n_measurements >>

mqttVars == << task_queue, worker, n_messages, published >>

loopVars == << loop_owner, http_inbox, n_requests >>

\* what the HTTP server, the detector and the optimiser leave alone
clientVars == << client_pc, MODEL_NAME, server_available, best_layer,
                 n_cycles, client_call, inference >>

startVars == << start_pc, settings, offset, ntp_syncs, ntp_timers, uptime >>

otherVars == << mqttVars, loopVars, clientVars, startVars, wire, sideVars >>

None == "none"

(***************************************************************************)
(* Bounds                                                                  *)
(***************************************************************************)
\* largest number of layers of the vectors handed to the optimiser
MaxN == 2
\* largest per-layer time (ticks) in the enumerated optimiser inputs
MaxTime == 1
\* layers 0..MaxLayerId are measured in the detector model
MaxLayerId == 1
\* window_size of the detector in the detector model
DetectorWindow == 3
\* number of measurements fed to the detector in the detector model
MaxMeasurements == 5

(***************************************************************************)
(* Generic helpers                                                         *)
(***************************************************************************)
RECURSIVE SumTo(_, _)
\* s[1] + ... + s[k]
SumTo(s, k) == IF k = 0 THEN 0 ELSE SumTo(s, k - 1) + s[k]

RECURSIVE Pow(_, _)
Pow(b, e) == IF e = 0 THEN 1 ELSE b * Pow(b, e - 1)

\* sequences over S of length exactly n
SeqsOfLen(S, n) == [1..n -> S]

(***************************************************************************)
(* simulated_scenario.py: offloading_algo                                  *)
(* Vectors are 1-based sequences: dev[i+1] is the time of layer i.  The    *)
(* vector of totals is 1-based too: totals[k+1] is total[k], k = 0..N.     *)
(***************************************************************************)
\* one tick is 1/10240000 s, so that size*4/1024/speed seconds is a whole
\* number of ticks for the sizes and speeds used here
TicksPerSecond == 1024 * 10000

ScalarNet(x) == [scalar |-> TRUE, v |-> x]
VectorNet(s) == [scalar |-> FALSE, v |-> s]

\* a normalisation that charges nothing for returning the final result
NormaliseNetFreeReturn(net, N) ==
    IF net.scalar THEN [ok |-> TRUE, v |-> [i \in 1..(N + 1) |-> net.v]]
    ELSE IF Len(net.v) = N + 1 THEN [ok |-> TRUE, v |-> net.v]
    ELSE IF Len(net.v) = N THEN [ok |-> TRUE, v |-> Append(net.v, 0)]
    ELSE IF Len(net.v) = 1 THEN [ok |-> TRUE, v |-> [i \in 1..(N + 1) |-> net.v[1]]]
    ELSE [ok |-> FALSE, v |-> << >>]

\* lines 20-32: bring network_times to length N+1, or fail
NormaliseNet(net, N) ==
    IF net.scalar THEN [ok |-> TRUE, v |-> [i \in 1..(N + 1) |-> net.v]]
    ELSE IF Len(net.v) = N + 1 THEN [ok |-> TRUE, v |-> net.v]
    ELSE IF Len(net.v) = N THEN [ok |-> TRUE, v |-> Append(net.v, net.v[N])]
    ELSE IF Len(net.v) = 1 THEN [ok |-> TRUE, v |-> [i \in 1..(N + 1) |-> net.v[1]]]
    ELSE [ok |-> FALSE, v |-> << >>]

\* a prefix sum that leaves out the time of layer 0
DevPrefixSkipFirst(dev) ==
    [j \in 1..(Len(dev) + 1) |->
        IF j = 1 THEN 0 ELSE SumTo(dev, j - 1) - dev[1]]

\* a suffix sum that leaves out the time of layer k itself
EdgeSuffixFromNext(edge) ==
    [j \in 1..(Len(edge) + 1) |->
        IF j > Len(edge) THEN 0 ELSE SumTo(edge, Len(edge)) - SumTo(edge, j)]

\* line 35: dev_prefix[k] = sum of the first k device times, k = 0..N
DevPrefix(dev) == [j \in 1..(Len(dev) + 1) |-> SumTo(dev, j - 1)]

\* line 36: edge_suffix[k] = sum of the edge times of layers k..N-1, and 0 for k = N
EdgeSuffix(edge) ==
    [j \in 1..(Len(edge) + 1) |-> SumTo(edge, Len(edge)) - SumTo(edge, j - 1)]

RECURSIVE ArgMinScan(_, _, _)
\* numpy.argmin: index of the first occurrence of the minimum (1-based here)
ArgMinScan(t, j, best) ==
    IF j > Len(t) THEN best
    ELSE ArgMinScan(t, j + 1, IF t[j] < t[best] THEN j ELSE best)

\* an argmin that returns the last occurrence of the minimum
ArgMinLast(t) ==
    CHOOSE j \in 1..Len(t) :
        /\ \A i \in 1..Len(t) : t[j] <= t[i]
        /\ \A i \in (j + 1)..Len(t) : t[j] < t[i]

ArgMin(t) == ArgMinScan(t, 2, 1)

\* lines 10-47
offloading_algo(edge_times, device_times, network_times) ==
    LET N == Len(device_times)
        net == NormaliseNet(network_times, N)
    IN  IF Len(edge_times) # N \/ ~net.ok
        THEN [ok |-> FALSE, best_k |-> 0,
              best_components |->
                  [dev_prefix |-> 0, edge_suffix |-> 0, network_time |-> 0]]
        ELSE LET dev_prefix == DevPrefix(device_times)
                 edge_suffix == EdgeSuffix(edge_times)
                 totals == [j \in 1..(N + 1) |->
                               dev_prefix[j] + net.v[j] + edge_suffix[j]]
                 best == ArgMin(totals)
             IN  [ok |-> TRUE,
                  best_k |-> best - 1,
                  best_components |->
                      [dev_prefix |-> dev_prefix[best],
                       edge_suffix |-> edge_suffix[best],
                       network_time |-> net.v[best]]]

\* lines 51-57, in ticks: (layer * 4) / 1024 / (network_speed * network_stability) seconds
compute_network_times(layers_size, network_speed, network_stability) ==
    [i \in 1..Len(layers_size) |->
        (layers_size[i] * 4 * (TicksPerSecond \div 1024))
            \div (network_speed * network_stability)]

(***************************************************************************)
(* variance_detector.py                                                    *)
(* A history is the deque of raw measurements, oldest first; the detector  *)
(* is the record of the fields of VarianceDetector.                        *)
(***************************************************************************)
\* variance_threshold = 0.15 = CvNum / CvDen
CvNum == 3
CvDen == 20
\* fewest measurements for which the variance is analysed
MinSamples == 3

\* a history that is never trimmed
DequeAppendUnbounded(measurements, time, maxlen) == Append(measurements, time)

\* deque(maxlen=window_size).append
DequeAppend(measurements, time, maxlen) ==
    IF Len(measurements) >= maxlen
    THEN Append(SubSeq(measurements, 2, Len(measurements)), time)
    ELSE Append(measurements, time)

\* sum of the squares of s[1..k]
RECURSIVE SumSq(_, _)
SumSq(s, k) == IF k = 0 THEN 0 ELSE SumSq(s, k - 1) + s[k] * s[k]

\* stdev / mean > threshold, with the sample standard deviation:
\*   stdev^2 = (n*Q - S^2) / (n*(n-1)),  mean = S / n
CvExceeds(m) ==
    LET n == Len(m)
        S == SumTo(m, n)
        Q == SumSq(m, n)
    IN  IF S > 0
        THEN CvDen * CvDen * n * (n * Q - S * S) > CvNum * CvNum * (n - 1) * S * S
        ELSE FALSE

\* InferenceTimeHistory._has_significant_variance, lines 48-66
HasSignificantVariance(m) ==
    IF Len(m) < MinSamples THEN FALSE ELSE CvExceeds(m)

\* an add_measurement that analyses the variance of any history
add_measurement_eager(measurements, time, maxlen) ==
    LET m == DequeAppend(measurements, time, maxlen)
    IN  [measurements |-> m, result |-> CvExceeds(m)]

\* InferenceTimeHistory.add_measurement, lines 30-46
add_measurement(measurements, time, maxlen) ==
    LET m == DequeAppend(measurements, time, maxlen)
    IN  [measurements |-> m,
         result |-> IF Len(m) < MinSamples THEN FALSE
                    ELSE HasSignificantVariance(m)]

\* the history of a layer, created on first use (lines 151-155, 183-187)
HistoryOf(histories, layer_id) ==
    IF layer_id \in DOMAIN histories THEN histories[layer_id] ELSE << >>

\* histories with the entry of layer_id set to m
WithHistory(histories, layer_id, m) ==
    [l \in (DOMAIN histories) \cup {layer_id} |->
        IF l = layer_id THEN m ELSE histories[l]]

Detector ==
    [window_size |-> window_size,
     device_histories |-> device_histories,
     edge_histories |-> edge_histories,
     device_needs_retest |-> device_needs_retest,
     edge_needs_retest |-> edge_needs_retest,
     device_variance_layers |-> device_variance_layers,
     edge_variance_layers |-> edge_variance_layers]

\* VarianceDetector.add_device_measurement, lines 140-170
add_device_measurement(vd, layer_id, time) ==
    LET r == add_measurement(HistoryOf(vd.device_histories, layer_id), time,
                             vd.window_size)
        h == WithHistory(vd.device_histories, layer_id, r.measurements)
    IN  [vd |-> IF r.result
                THEN [vd EXCEPT !.device_histories = h,
                                !.device_needs_retest = TRUE,
                                !.device_variance_layers = @ \cup {layer_id}]
                ELSE [vd EXCEPT !.device_histories = h],
         needs_retest |-> r.result]

\* VarianceDetector.add_edge_measurement, lines 172-202
add_edge_measurement(vd, layer_id, time) ==
    LET r == add_measurement(HistoryOf(vd.edge_histories, layer_id), time,
                             vd.window_size)
        h == WithHistory(vd.edge_histories, layer_id, r.measurements)
    IN  [vd |-> IF r.result
                THEN [vd EXCEPT !.edge_histories = h,
                                !.edge_needs_retest = TRUE,
                                !.edge_variance_layers = @ \cup {layer_id}]
                ELSE [vd EXCEPT !.edge_histories = h],
         needs_retest |-> r.result]

\* a cascade that also reaches the second successor
get_layers_needing_retest_deep(vd) ==
    [device |-> vd.device_variance_layers
                  \cup {l + 1 : l \in vd.device_variance_layers}
                  \cup {l + 2 : l \in vd.device_variance_layers},
     edge |-> vd.edge_variance_layers
                  \cup {l + 1 : l \in vd.edge_variance_layers}]

\* VarianceDetector.get_layers_needing_retest, lines 204-227 (as sets)
get_layers_needing_retest(vd) ==
    [device |-> vd.device_variance_layers
                  \cup {l + 1 : l \in vd.device_variance_layers},
     edge |-> vd.edge_variance_layers
                  \cup {l + 1 : l \in vd.edge_variance_layers}]

\* a readout that reports the flags and leaves them raised
should_retest_offloading_keep(vd) ==
    [vd |-> vd,
     needs_retest |-> vd.device_needs_retest \/ vd.edge_needs_retest]

\* VarianceDetector.should_retest_offloading, lines 229-249
should_retest_offloading(vd) ==
    LET needs_retest == vd.device_needs_retest \/ vd.edge_needs_retest
    IN  [vd |-> IF needs_retest
                THEN [vd EXCEPT !.device_needs_retest = FALSE,
                                !.edge_needs_retest = FALSE]
                ELSE vd,
         needs_retest |-> needs_retest]

\* the detector variables after a call that left the detector as vd
SetDetector(vd) ==
    /\ window_size' = vd.window_size
    /\ device_histories' = vd.device_histories
    /\ edge_histories' = vd.edge_histories
    /\ device_needs_retest' = vd.device_needs_retest
    /\ edge_needs_retest' = vd.edge_needs_retest
    /\ device_variance_layers' = vd.device_variance_layers
    /\ edge_variance_layers' = vd.edge_variance_layers

(***************************************************************************)
(* Wire format of the device report.  A payload is a sequence of bytes     *)
(* (0..255).  A float32 or a double is modelled by the little-endian       *)
(* bytes of the integer that stands for its value.                         *)
(***************************************************************************)
RECURSIVE LE(_, _)
\* the w little-endian bytes of the non-negative integer n
LE(n, w) == IF w = 0 THEN << >> ELSE <<n % 256>> \o LE(n \div 256, w - 1)

RECURSIVE FromLE(_)
\* the non-negative integer held by little-endian bytes
FromLE(b) == IF Len(b) = 0 THEN 0 ELSE b[1] + 256 * FromLE(Tail(b))

\* struct.pack("i", k): two's complement, 4 bytes
PackI32(k) ==
    IF k >= 0 THEN LE(k, 4)
    ELSE LET m == LE((0 - k) - 1, 4) IN [j \in 1..4 |-> 255 - m[j]]

\* struct.unpack("i", b)[0] for 4 bytes b
UnpackI32(b) ==
    IF b[4] < 128 THEN FromLE(b)
    ELSE 0 - (FromLE([j \in 1..4 |-> 255 - b[j]]) + 1)

RECURSIVE PackFloats(_)
\* numpy tobytes() of a float32 array
PackFloats(xs) ==
    IF Len(xs) = 0 THEN << >> ELSE LE(Head(xs), 4) \o PackFloats(Tail(xs))

\* struct.unpack("<nf", b) for a buffer b of 4*n bytes
UnpackFloats(b) ==
    [j \in 1..(Len(b) \div 4) |-> FromLE(SubSeq(b, 4 * j - 3, 4 * j))]

\* bytes.ljust(n, b'\x00')
LJust(b, n) == IF Len(b) >= n THEN b ELSE b \o [j \in 1..(n - Len(b)) |-> 0]

Min(a, b) == IF a < b THEN a ELSE b

\* Python payload[a:b] for 0 <= a: bytes a..b-1, clamped to the payload
Slice(payload, a, b) ==
    IF b <= a \/ a >= Len(payload) THEN << >>
    ELSE SubSeq(payload, a + 1, Min(b, Len(payload)))

\* Python int(x / 4): truncation toward zero
IntDiv4(x) == IF x >= 0 THEN x \div 4 ELSE 0 - ((0 - x) \div 4)

\* http_client.py send_inference_result, lines 196-204, with the two size
\* fields given explicitly
RawReport(timestamp, client_id, message_id, layer_index, output_nbytes, output_data, times_nbytes, inference_times) ==
    LE(timestamp, 8) \o LJust(client_id, 9) \o LJust(message_id, 4)
        \o PackI32(layer_index)
        \o LE(output_nbytes, 4) \o PackFloats(output_data)
        \o PackI32(times_nbytes) \o PackFloats(inference_times)

\* http_client.py send_inference_result, lines 196-204
Report(timestamp, client_id, message_id, layer_index, output_data, inference_times) ==
    RawReport(timestamp, client_id, message_id, layer_index,
              4 * Len(output_data), output_data,
              4 * Len(inference_times), inference_times)

ParseError == [ok |-> FALSE]

\* struct.unpack of a float list: the count is int(size / 4) and the buffer
\* must hold exactly that many floats
FloatsOk(size, buf) == IntDiv4(size) >= 0 /\ Len(buf) = 4 * IntDiv4(size)

\* a parser that reads as many floats as the buffer holds
FromRawLenient(payload) ==
    IF Len(payload) < 29 THEN ParseError
    ELSE LET layer_output_size == FromLE(Slice(payload, 25, 29))
             off == 29 + layer_output_size
             out == Slice(payload, 29, off)
             tb == Slice(payload, off + 4, Len(payload))
         IN  [ok |-> TRUE,
              timestamp |-> FromLE(Slice(payload, 0, 8)),
              device_id |-> Slice(payload, 8, 17),
              message_id |-> Slice(payload, 17, 21),
              offloading_layer_index |-> UnpackI32(Slice(payload, 21, 25)),
              layer_output |-> UnpackFloats(out),
              layers_inference_time |-> UnpackFloats(tb)]

\* RequestHandler._from_raw, lines 196-235
FromRaw(payload) ==
    IF Len(Slice(payload, 0, 8)) # 8 THEN ParseError
    ELSE IF \E j \in 9..Min(21, Len(payload)) : payload[j] > 127 THEN ParseError
    ELSE IF Len(Slice(payload, 21, 25)) # 4 THEN ParseError
    ELSE IF Len(Slice(payload, 25, 29)) # 4 THEN ParseError
    ELSE LET layer_output_size == FromLE(Slice(payload, 25, 29))
             out == Slice(payload, 29, 29 + layer_output_size)
             off == 29 + layer_output_size
         IN  IF ~FloatsOk(layer_output_size, out) THEN ParseError
             ELSE IF Len(Slice(payload, off, off + 4)) # 4 THEN ParseError
             ELSE LET times_size == UnpackI32(Slice(payload, off, off + 4))
                      tb == Slice(payload, off + 4, off + 4 + times_size)
                  IN  IF ~FloatsOk(times_size, tb) THEN ParseError
                      ELSE [ok |-> TRUE,
                            timestamp |-> FromLE(Slice(payload, 0, 8)),
                            device_id |-> Slice(payload, 8, 17),
                            message_id |-> Slice(payload, 17, 21),
                            offloading_layer_index |->
                                UnpackI32(Slice(payload, 21, 25)),
                            layer_output |-> UnpackFloats(out),
                            layers_inference_time |-> UnpackFloats(tb)]

\* RequestHandler._extend_message_data, lines 237-264, with
\* MessageData.get_latency and get_avg_speed: the speed is kept as the
\* fraction payload_size / latency (0 when the latency is 0)
ExtendMessageData(md, received_timestamp, payload) ==
    LET latency == received_timestamp - md.timestamp
    IN  [offloading_layer_index |-> md.offloading_layer_index,
         layer_output |-> md.layer_output,
         device_layers_inference_time |-> md.layers_inference_time,
         device_id |-> md.device_id,
         message_id |-> md.message_id,
         payload_size |-> Len(payload),
         latency |-> latency,
         avg_speed |-> IF latency = 0 THEN [num |-> 0, den |-> 1]
                       ELSE [num |-> Len(payload), den |-> latency]]

(***************************************************************************)
(* Bounds and inputs of the server model                                   *)
(***************************************************************************)
\* number of layers N of the configured model (layers 0..N-1)
NumLayers == 2
\* number of device reports the model lets through the parser
MaxReports == 2
\* stored timings are kept in units of 1/Scale of a raw unit
Scale == Pow(5, MaxReports)
\* the constant the handler compares the split index with (line 133)
LAST_LAYER == 58
\* RequestHandler.variance_detector = VarianceDetector(window_size=10, ...)
HandlerWindow == 10

Layers == 0..(NumLayers - 1)
\* raw per-layer wall times a device reports / the edge measures
DeviceRaw == {1 * Scale, 3 * Scale}
EdgeRaw == {1 * Scale, 2 * Scale}
\* contents of the stores after edge initialisation
InitDeviceTime == 2 * Scale
\* device_inference_times.json before the first report: a timing for every
\* layer, or no entry yet
InitDeviceStores == {[l \in Layers |-> InitDeviceTime], << >>}
InitEdgeTime == 1 * Scale
\* bytes of the activation at the output of each layer (layer_sizes.json)
SizesFor(n) == [l \in 0..(n - 1) |-> IF l = 0 THEN 1000 ELSE 200]
InitSizes == SizesFor(NumLayers)
\* model.<name>.last_offloading_layer
last_offloading_layer == NumLayers - 1

\* the input image of the model in the model: 2 x 2 pixels of 2 bytes
InputHeight == 2
InputWidth == 2
\* bodies posted to device_input: an image, and one a byte short
ImageBodies ==
    {[j \in 1..n |-> 1] : n \in {InputHeight * InputWidth * 2,
                                   InputHeight * InputWidth * 2 - 1}}
\* client ids, as ASCII bytes: "A", "B"
Clients == {<<65>>, <<66>>}
UnknownId == <<117, 110, 107, 110, 111, 119, 110>>
MessageId == <<77, 48, 48, 49>>
\* server clock at reception and the latencies of the link
Now == 100 * 1000
Latencies == {1, 4000}
\* the activation a device holds after running layers 0..k (all of them
\* for k = -1): k+1 values, a stand-in for the tensor
OutputOf(k) == IF k < 0 \/ k >= NumLayers THEN <<7>> ELSE [j \in 1..(k + 1) |-> 7 + j]

(***************************************************************************)
(* Timing stores.  A store is a function from layer index to time; the     *)
(* JSON files keep keys in insertion order, which is the index order here. *)
(***************************************************************************)
\* 0.2 * x + 0.8 * old with the weights exchanged
EwmaSwapped(x, old) == (4 * x + old) \div 5

\* alpha * x + (1 - alpha) * old, alpha = 0.2
Ewma(x, old) == (x + 4 * old) \div 5

WithEntry(store, l, v) ==
    [j \in (DOMAIN store) \cup {l} |-> IF j = l THEN v ELSE store[j]]

\* a handler that writes a file with the reported layer only
UpdateDeviceTimeAlone(store, l, x) ==
    IF l \in DOMAIN store THEN [j \in {l} |-> (x + 4 * store[l]) \div 5]
    ELSE [j \in {l} |-> x]

\* request_handler.py lines 118-123
UpdateDeviceTime(store, l, x) ==
    IF l \in DOMAIN store THEN WithEntry(store, l, Ewma(x, store[l]))
    ELSE WithEntry(store, l, x)

\* model_manager.py lines 31-37
UpdateEdgeTime(store, l, x) ==
    IF l \in DOMAIN store THEN WithEntry(store, l, (x + 4 * store[l]) \div 5)
    ELSE WithEntry(store, l, x)

RECURSIVE StoreValuesFrom(_, _)
StoreValuesFrom(store, l) ==
    IF l \in DOMAIN store THEN <<store[l]>> \o StoreValuesFrom(store, l + 1)
    ELSE << >>

\* RequestHandler._load_stats, lines 179-194: the values of a file as a list
StoreValues(store) == StoreValuesFrom(store, 0)

RECURSIVE ApplyDeviceTimesUnlessFlagged(_, _, _)
\* a handler that leaves out the timing of a layer whose measurement is
\* flagged by the detector
ApplyDeviceTimesUnlessFlagged(st, times, l_id) ==
    IF l_id >= Len(times) THEN st
    ELSE LET x == times[l_id + 1]
             m == add_device_measurement(st.vd, l_id, x)
         IN  ApplyDeviceTimesUnlessFlagged(
                 [store |-> IF m.needs_retest THEN st.store
                            ELSE UpdateDeviceTime(st.store, l_id, x),
                  vd |-> m.vd],
                 times, l_id + 1)

RECURSIVE ApplyDeviceTimes(_, _, _)
\* request_handler.py lines 117-126: for l_id, inference_time in enumerate(...)
ApplyDeviceTimes(st, times, l_id) ==
    IF l_id >= Len(times) THEN st
    ELSE LET x == times[l_id + 1]
         IN  ApplyDeviceTimes(
                 [store |-> UpdateDeviceTime(st.store, l_id, x),
                  vd |-> add_device_measurement(st.vd, l_id, x).vd],
                 times, l_id + 1)

(***************************************************************************)
(* edge_initialization.py: Edge.run_inference.  env.elapsed[i] is the wall *)
(* time of layer i on the edge, env.fail_at the set of layers whose          *)
(* evaluation raises.  A prediction is the device's activation and the     *)
(* layers applied to it.                                                   *)
(***************************************************************************)
Prediction(input, layers) == [ok |-> TRUE, input |-> input, layers |-> layers]
NoPrediction == [ok |-> FALSE, input |-> << >>, layers |-> << >>]

RECURSIVE RunLayers(_, _, _, _)
\* lines 68-82 with track_inference_time: evaluate layers i..N-1 in order
RunLayers(st, i, N, env) ==
    IF i >= N THEN st
    ELSE IF i \in env.fail_at THEN [st EXCEPT !.raised = TRUE]
    ELSE RunLayers([st EXCEPT !.store = UpdateEdgeTime(st.store, i, env.elapsed[i]),
                              !.evaluated = Append(st.evaluated, i)],
                   i + 1, N, env)

\* an edge that leaves out the first layer after the split
run_inference_skip_first(offloading_layer_index, offloading_layer_output, edge_store, N, env) ==
    LET r == RunLayers([raised |-> FALSE, store |-> edge_store,
                        evaluated |-> << >>],
                       offloading_layer_index + 2, N, env)
    IN  [raised |-> r.raised, store |-> r.store, evaluated |-> r.evaluated,
         prediction |-> IF r.raised THEN NoPrediction
                        ELSE Prediction(offloading_layer_output, r.evaluated)]

\* lines 27-85; the ModelManager is created without a variance detector
\* (lines 41-42), so no edge measurement reaches the detector
run_inference(offloading_layer_index, offloading_layer_output, edge_store, N, env) ==
    LET start_layer_index == offloading_layer_index + 1
    IN  IF start_layer_index = N
        THEN [raised |-> FALSE, store |-> edge_store, evaluated |-> << >>,
              prediction |-> Prediction(offloading_layer_output, << >>)]
        ELSE IF start_layer_index > N
        THEN \* layers_to_use is empty: line 85 raises IndexError
             [raised |-> TRUE, store |-> edge_store, evaluated |-> << >>,
              prediction |-> NoPrediction]
        ELSE LET r == RunLayers([raised |-> FALSE, store |-> edge_store,
                                 evaluated |-> << >>],
                                start_layer_index, N, env)
             IN  [raised |-> r.raised, store |-> r.store,
                  evaluated |-> r.evaluated,
                  prediction |-> IF r.raised THEN NoPrediction
                                 ELSE Prediction(offloading_layer_output,
                                                 r.evaluated)]

\* request_handler.py line 133
DeviceCompleted(k, N) == k = -1 \/ k >= LAST_LAYER

(***************************************************************************)
(* Local-inference refresher.  random.random() is drawn from Draws, which  *)
(* stands for [0, 1) in hundredths; the probability is in hundredths too.  *)
(***************************************************************************)
Draws == {0, 99}

\* a gate that ignores the enabled switch
ShouldForceAlways(enabled, probability, draw) == draw < probability

\* RequestHandler.should_force_local_inference, lines 68-85
should_force_local_inference(enabled, probability, draw) ==
    IF ~enabled THEN FALSE ELSE draw < probability

(***************************************************************************)
(* OffloadingAlgo.static_offloading (server/offloading_algo): the scalar   *)
(* rule net[i] = S[i]*4/1024/avg_speed for i < N and net[N] = net[N-1],    *)
(* then the lowest argmin of total[k].  With avg_speed = num/den the       *)
(* totals are compared after multiplication by 256*num.                    *)
(***************************************************************************)
static_offloading(avg_speed, num_layers, sizes, dev, edge) ==
    IF num_layers = 0 \/ Len(dev) # num_layers \/ Len(edge) # num_layers
       \/ avg_speed.num <= 0 \/ avg_speed.den <= 0
    THEN [ok |-> FALSE, best |-> 0]
    ELSE LET dev_prefix == DevPrefix(dev)
             edge_suffix == EdgeSuffix(edge)
             net == [j \in 1..(num_layers + 1) |->
                        sizes[Min(j, num_layers)] * avg_speed.den]
             totals == [j \in 1..(num_layers + 1) |->
                           256 * avg_speed.num * (dev_prefix[j] + edge_suffix[j])
                               + net[j]]
         IN  [ok |-> TRUE, best |-> ArgMin(totals) - 1]

(***************************************************************************)
(* Device reports offered to the server.  A report is described by how its *)
(* payload is built (kind, cut), its sender c, the split k, the per-layer  *)
(* times and the latency of the link; it comes with the behaviour of the   *)
(* layer runtime (env) and the draw of random.random().  The reports       *)
(* differ from the reference report (sender "A", split N-1, no times, fast *)
(* link) in the sender and the link, or the split, or the times, or the    *)
(* draw, or the construction of the payload.                               *)
(***************************************************************************)
\* the split indices a device may report
Splits == (-1..NumLayers) \cup {LAST_LAYER}
\* the per-layer times a report may carry: one raw time for each of the
\* layers 0..m-1, m <= N
TimeLists == {[j \in 1..m |-> x] : m \in 0..NumLayers, x \in DeviceRaw}
\* the layers Edge.run_inference evaluates for split k
Suffix(k) == IF k >= 0 THEN (k + 1)..(NumLayers - 1) ELSE {}
\* wall times and failures of the layer runtime during one suffix run
EdgeEnvs(k) ==
    {[elapsed |-> [l \in Suffix(k) |-> x], fail_at |-> f] :
        x \in EdgeRaw,
        f \in {{}} \cup {{l} : l \in Suffix(k)}}
NoEdge == [elapsed |-> << >>, fail_at |-> {}]
\* offsets at which a truncated payload ends (-1: one byte short)
Cuts == {0, 7, 20, 24, 28, 31, -1}
RefClient == <<65>>
RefSplit == NumLayers - 1
\* the layer runtime at its usual speed, for the suffix of split k
RefEnv(k) == [elapsed |-> [l \in Suffix(k) |-> InitEdgeTime], fail_at |-> {}]
\* the same runtime with one layer of the suffix raising (artefact missing,
\* shape mismatch)
FailingEnvs(k) == {[RefEnv(k) EXCEPT !.fail_at = {l}] : l \in Suffix(k)}
RefLatency == CHOOSE l \in Latencies : \A m \in Latencies : l <= m
RefDraw == CHOOSE d \in Draws : \A e \in Draws : e <= d

Rep(kind, cut, c, k, times, latency, draw, env) ==
    [kind |-> kind, cut |-> cut, c |-> c, k |-> k, times |-> times,
     latency |-> latency, draw |-> draw, env |-> env]

WellFormedReports ==
    {Rep("well-formed", 0, c, RefSplit, << >>, latency, RefDraw, NoEdge) :
        c \in Clients, latency \in Latencies}
    \cup UNION {{Rep("well-formed", 0, RefClient, k, << >>, RefLatency, RefDraw, env) :
                    env \in EdgeEnvs(k)} : k \in Splits}
    \cup {Rep("well-formed", 0, RefClient, RefSplit, times, RefLatency, RefDraw, NoEdge) :
             times \in TimeLists}
    \cup {Rep("well-formed", 0, RefClient, RefSplit, << >>, RefLatency, draw, NoEdge) :
             draw \in Draws}
    \cup {Rep("well-formed", 0, RefClient, 0, <<x>>, RefLatency, RefDraw, env) :
             x \in DeviceRaw, env \in FailingEnvs(0)}

MalformedReports ==
    {Rep("truncated", cut, RefClient, 0, <<InitDeviceTime>>, RefLatency, RefDraw,
         RefEnv(0)) : cut \in Cuts}
    \cup {Rep(kind, 0, RefClient, 0, <<InitDeviceTime>>, RefLatency, RefDraw,
              RefEnv(0)) : kind \in {"times-oversize", "output-odd"}}

Reports == WellFormedReports \cup MalformedReports

\* reports whose per-layer times hold a duration of zero (t1 - t0 of
\* time.time() on the device, http_client.py lines 168-176) or a measured
\* one, for a split with and without an edge suffix
TimingReports ==
    {Rep("well-formed", 0, RefClient, k, times, RefLatency, RefDraw, RefEnv(k)) :
        k \in {0, RefSplit},
        times \in {[j \in 1..m |-> x] : m \in 1..NumLayers,
                                        x \in {0} \cup DeviceRaw}}

\* every report a specification offers
OfferedReports == Reports \cup TimingReports

\* the payload of a report, sent at Now - latency
PayloadOf(rep) ==
    LET timestamp == Now - rep.latency
        act == OutputOf(rep.k)
        good == Report(timestamp, rep.c, MessageId, rep.k, act, rep.times)
    IN  CASE rep.kind = "well-formed" -> good
          [] rep.kind = "truncated" ->
                SubSeq(good, 1, IF rep.cut < 0 THEN Len(good) - 1 ELSE rep.cut)
          [] rep.kind = "times-oversize" ->
                RawReport(timestamp, rep.c, MessageId, rep.k, 4 * Len(act), act,
                          4 * Len(rep.times) + 4, rep.times)
          [] rep.kind = "output-odd" ->
                RawReport(timestamp, rep.c, MessageId, rep.k, 4 * Len(act) + 2,
                          act, 4 * Len(rep.times), rep.times)

\* the payloads of all reports, and their parse (evaluated once)
body_of == [rep \in OfferedReports |-> PayloadOf(rep)]
from_raw == [body \in {body_of[rep] : rep \in OfferedReports} |-> FromRaw(body)]

(***************************************************************************)
(* RequestHandler.handle_device_inference_result, lines 105-172.           *)
(* The result says how far the handler got (stage) and what it left in the *)
(* stores, the detector and the evaluation log; `raised` means that an     *)
(* exception left the handler.                                             *)
(***************************************************************************)
Untouched(stage) ==
    [raised |-> TRUE, stage |-> stage,
     device_store |-> device_inference_times,
     edge_store |-> edge_inference_times,
     vd |-> Detector, log |-> evaluations,
     prediction |-> NoPrediction, evaluated |-> << >>, retest |-> FALSE,
     forced |-> FALSE, returned |-> << >>]

\* a handler that runs the optimiser before it asks the refresher
SelectSplitOptimiserFirst(done, forced, algo) ==
    IF ~algo.ok
    THEN [done EXCEPT !.raised = TRUE, !.stage = "optimiser",
                      !.returned = << >>]
    ELSE IF forced THEN done
    ELSE [done EXCEPT !.returned = <<algo.best>>]

\* lines 158-172: -1 when the refresher fires, else the optimiser's split;
\* `done` is the result with -1, algo the optimiser's answer if it is asked
SelectSplit(done, forced, algo) ==
    IF forced THEN done
    ELSE IF ~algo.ok
    THEN [done EXCEPT !.raised = TRUE, !.stage = "optimiser",
                      !.returned = << >>]
    ELSE [done EXCEPT !.returned = <<algo.best>>]

\* the handler with RequestHandler.variance_detector in the state vd
HandleWith(vd, body, received_timestamp, env, draw) ==
    LET parsed == from_raw[body]
    IN  IF ~parsed.ok THEN [Untouched("parse") EXCEPT !.vd = vd]
        ELSE
        LET md == ExtendMessageData(parsed, received_timestamp, body)
            \* lines 112-129: device timings and variance tracking
            upd == ApplyDeviceTimes([store |-> device_inference_times,
                                     vd |-> vd],
                                    md.device_layers_inference_time, 0)
            \* lines 131-139: finish the inference on the edge
            k == md.offloading_layer_index
            N == Cardinality(DOMAIN layers_sizes)
            edge == IF DeviceCompleted(k, N)
                    THEN [raised |-> FALSE, store |-> edge_inference_times,
                          evaluated |-> << >>,
                          prediction |-> Prediction(md.layer_output, << >>)]
                    ELSE run_inference(k, md.layer_output,
                                       edge_inference_times, N, env)
        IN  IF edge.raised
            THEN [Untouched("edge") EXCEPT !.device_store = upd.store,
                                           !.edge_store = edge.store,
                                           !.vd = upd.vd,
                                           !.evaluated = edge.evaluated]
            ELSE
            LET \* line 142: one row of the evaluation log (identified by its
                \* message id)
                log == Append(evaluations,
                              [message_id |-> md.message_id])
                \* line 150
                dev_list == StoreValues(upd.store)
                edge_list == StoreValues(edge.store)
                sizes_list == StoreValues(layers_sizes)
                \* line 154
                retest == should_retest_offloading(upd.vd)
                \* line 158
                forced == should_force_local_inference(
                              local_inference_enabled,
                              local_inference_probability, draw)
                algo == static_offloading(md.avg_speed, Len(sizes_list),
                                          sizes_list, dev_list, edge_list)
                done == [raised |-> FALSE, stage |-> "done",
                         device_store |-> upd.store,
                         edge_store |-> edge.store,
                         vd |-> retest.vd, log |-> log,
                         prediction |-> edge.prediction,
                         evaluated |-> edge.evaluated,
                         retest |-> retest.needs_retest,
                         forced |-> forced,
                         returned |-> << -1 >>]
            IN  SelectSplit(done, forced, algo)

handle_device_inference_result(body, received_timestamp, env, draw) ==
    HandleWith(Detector, body, received_timestamp, env, draw)

\* a handler that answers the number of device layers instead of the index
handle_offloading_layer_count(best, client_id) == best + 1

\* RequestHandler.handle_offloading_layer, lines 174-177
handle_offloading_layer(best, client_id) == best

\* a table that is started afresh by every registration
WithClientOnly(models, client_id, model) == [c \in {client_id} |-> model]

\* self.client_models[client_id] = assigned_model, line 87
WithClient(models, client_id, model) ==
    [c \in (DOMAIN models) \cup {client_id} |->
        IF c = client_id THEN model ELSE models[c]]

\* an assignment that balances the clients over two models
assign_model_by_load(client_id) ==
    IF Cardinality(devices) % 2 = 0 THEN "fomo_96x96" ELSE "fomo_48x48"

\* HttpServer._assign_model_to_client, lines 61-72
assign_model_to_client(client_id) == "fomo_96x96"

(***************************************************************************)
(* History variables of the timing stores: for every entry, the current    *)
(* run of updates with one and the same raw time x.  old is the entry      *)
(* before the run, seeded says that the run began by creating the entry.   *)
(***************************************************************************)
RunAfter(runs, store_before, l, x) ==
    LET r == IF l \notin DOMAIN store_before
             THEN [seeded |-> TRUE, old |-> x, x |-> x, n |-> 1]
             ELSE IF l \in DOMAIN runs /\ runs[l].x = x
             THEN [runs[l] EXCEPT !.n = @ + 1]
             ELSE [seeded |-> FALSE, old |-> store_before[l], x |-> x, n |-> 1]
    IN  [j \in (DOMAIN runs) \cup {l} |-> IF j = l THEN r ELSE runs[j]]

RECURSIVE DeviceRunsAfter(_, _, _, _)
DeviceRunsAfter(runs, store_before, times, l_id) ==
    IF l_id >= Len(times) THEN runs
    ELSE DeviceRunsAfter(RunAfter(runs, store_before, l_id, times[l_id + 1]),
                         store_before, times, l_id + 1)

RECURSIVE EdgeRunsAfter(_, _, _, _, _)
EdgeRunsAfter(runs, store_before, evaluated, elapsed, j) ==
    IF j > Len(evaluated) THEN runs
    ELSE EdgeRunsAfter(RunAfter(runs, store_before, evaluated[j],
                                elapsed[evaluated[j]]),
                       store_before, evaluated, elapsed, j + 1)

RECURSIVE FlaggedBy(_, _, _)
\* some add_device_measurement of the report returned True
FlaggedBy(vd, times, l_id) ==
    IF l_id >= Len(times) THEN FALSE
    ELSE LET r == add_device_measurement(vd, l_id, times[l_id + 1])
         IN  r.needs_retest \/ FlaggedBy(r.vd, times, l_id + 1)

(***************************************************************************)
(* The edge process in HTTP mode (run_edge.py, http_server.py)             *)
(***************************************************************************)
NoCall == [op |-> None]

\* settings.yaml: local_inference_mode.{enabled, probability}
Configurations ==
    {[enabled |-> FALSE, probability |-> 100],
     [enabled |-> TRUE, probability |-> 0],
     [enabled |-> TRUE, probability |-> 50],
     [enabled |-> TRUE, probability |-> 100]}

ServerInit ==
    /\ phase = "boot"
    /\ best_offloading_layer = last_offloading_layer
    /\ devices = {}
    /\ client_models = << >>
    /\ response = NoCall
    /\ input_image = None
    /\ \E cfg \in Configurations :
           /\ local_inference_enabled = cfg.enabled
           /\ local_inference_probability = cfg.probability
    /\ device_inference_times \in InitDeviceStores
    /\ edge_inference_times = << >>
    /\ layers_sizes = << >>
    /\ evaluations = << >>
    /\ last_k = [c \in Clients |-> << >>]
    /\ n_reports = 0
    /\ ewma_run = [device |-> << >>, edge |-> << >>]

\* VarianceDetector.__init__, lines 122-138, and no call made yet
DetectorInit(w) ==
    /\ window_size = w
    /\ device_histories = << >>
    /\ edge_histories = << >>
    /\ device_needs_retest = FALSE
    /\ edge_needs_retest = FALSE
    /\ device_variance_layers = {}
    /\ edge_variance_layers = {}
    /\ readout = NoCall
    /\ measured = NoCall
    /\ flagged_since_readout = FALSE
    /\ n_measurements = 0

\* MqttClient.__init__, lines 51-59: an empty queue and a started worker
MqttInit ==
    /\ task_queue = << >>
    /\ worker = "running"
    /\ n_messages = 0
    /\ published = << >>

\* uvicorn.run, http_server.py lines 133-139: one event loop, nothing received
LoopInit ==
    /\ loop_owner = NoCall
    /\ http_inbox = {}
    /\ n_requests = 0

\* http_client.py before main() is called (lines 24-55): CLIENT_ID is set,
\* MODEL_NAME is None, nothing sent
ClientInit ==
    /\ client_pc = "register_device"
    /\ MODEL_NAME = None
    /\ server_available = None
    /\ best_layer = None
    /\ n_cycles = 0
    /\ client_call = << >>
    /\ inference = NoCall

(***************************************************************************)
(* The start of the edge process in HTTP mode: run_edge.py lines 13-49,    *)
(* RequestHandler.__init__, HttpServer.__init__ with _sync_with_ntp, and   *)
(* run().  settings is what the YAML files hold; an NTP request yields an  *)
(* offset, raises ntplib.NTPException (no answer) or raises an error of    *)
(* the socket layer (name resolution).  Once the server listens, time      *)
(* passes in periods of 600 s and the timers that are due fire.            *)
(***************************************************************************)
\* number of periods of 600 s the server is followed for
MaxUptime == 2

NumberValue(v) == [kind |-> "number", v |-> v]
TextValue == [kind |-> "str"]

\* local_inference_mode of settings.yaml: valid ones, a probability outside
\* [0, 1] and one that is no number (probabilities in hundredths)
LocalInferenceModes ==
    {[enabled |-> FALSE, probability |-> NumberValue(100)],
     [enabled |-> TRUE, probability |-> NumberValue(50)],
     [enabled |-> TRUE, probability |-> NumberValue(150)],
     [enabled |-> TRUE, probability |-> TextValue]}

\* the configuration files: config['model'][...] present or not, and the
\* local inference mode
Settings ==
    [model_config : BOOLEAN, local_inference_mode : LocalInferenceModes]

DefaultSettings ==
    [model_config |-> TRUE,
     local_inference_mode |-> [enabled |-> FALSE, probability |-> NumberValue(100)]]

NtpOutcomes == {"offset", "NTPException", "gaierror"}
\* response.offset of a request that is answered
NtpOffset == 3

\* no report is on its way
WireIdle == wire = [pc |-> "idle", args |-> << >>, buffer |-> << >>, message |-> << >>]

\* no pair of reports is being compared
PairIdle ==
    pair = [pc |-> "idle", first |-> << >>, second |-> << >>,
            ab |-> << >>, ba |-> << >>]

\* no ModelManager exists
CacheIdle ==
    interpreters = [pc |-> "idle", cache |-> {}, pending |-> << >>,
                    created |-> << >>, runs |-> 0]

\* no report is handled twice
TwinIdle == twin = [pc |-> "idle", input |-> << >>, left |-> << >>, right |-> << >>]

\* no simulation is run
SimIdle == sim = [pc |-> "idle", index |-> 0, file |-> 0, clients |-> << >>]

SideIdle == PairIdle /\ CacheIdle /\ TwinIdle /\ SimIdle

\* the start is not part of the specification
StartIdle ==
    /\ start_pc = "main"
    /\ settings = DefaultSettings
    /\ offset = << >>
    /\ ntp_syncs = 0
    /\ ntp_timers = 0
    /\ uptime = 0

\* the processes that take no part in a specification
OthersIdle == MqttInit /\ LoopInit /\ ClientInit /\ StartIdle /\ WireIdle /\ SideIdle

Init ==
    /\ ServerInit
    /\ DetectorInit(HandlerWindow)
    /\ opt = NoCall
    /\ OthersIdle

\* Edge.initialization, lines 87-146: every layer is evaluated once on the
\* test image by a ModelManager that starts with no inference times, and
\* the layer sizes are written; n is len(model.layers) of the model loaded
EdgeInitializationFor(n) ==
    /\ phase = "boot"
    /\ phase' = "serving"
    /\ LET elapsed == [l \in 0..(n - 1) |-> InitEdgeTime]
           r == RunLayers([raised |-> FALSE, store |-> << >>,
                           evaluated |-> << >>],
                          0, n, [elapsed |-> elapsed, fail_at |-> {}])
       IN  /\ edge_inference_times' = r.store
           /\ ewma_run' = [ewma_run EXCEPT
                  !.edge = EdgeRunsAfter(@, << >>, r.evaluated, elapsed, 1)]
    /\ layers_sizes' = SizesFor(n)
    /\ response' = [op |-> "initialization"]
    /\ UNCHANGED << input_image, best_offloading_layer, devices, client_models,
                    local_inference_enabled, local_inference_probability,
                    device_inference_times, evaluations, last_k, n_reports >>

\* the configured model
EdgeInitializationCall == EdgeInitializationFor(NumLayers)

\* run_edge.py line 38, the rest of the start left out
EdgeInitialization ==
    /\ EdgeInitializationCall
    /\ UNCHANGED << detectorVars, opt, otherVars >>

\* POST registration, lines 75-98: the route
RegistrationRoute(data) ==
    /\ phase = "serving"
    /\ LET client_id == IF "client_id" \in DOMAIN data THEN data.client_id
                        ELSE UnknownId
           assigned_model == assign_model_to_client(client_id)
       IN  /\ client_models' = WithClient(client_models, client_id, assigned_model)
           /\ devices' = devices \cup {client_id}
           /\ response' = [op |-> "registration", status |-> 200,
                           client_id |-> client_id,
                           known |-> client_id \in devices,
                           model_name |-> assigned_model]
    /\ UNCHANGED << input_image, phase, best_offloading_layer,
                    local_inference_enabled, local_inference_probability,
                    device_inference_times, edge_inference_times,
                    layers_sizes, evaluations, last_k, n_reports, ewma_run >>

\* POST registration as a request of some device
Registration(data) ==
    /\ RegistrationRoute(data)
    /\ UNCHANGED << detectorVars, opt, otherVars >>

\* ModelInputConverter.convert_rgb565_to_nparray: every row of width
\* pixels is unpacked from 2*width bytes, so a body shorter than
\* height*width*2 bytes raises; bytes beyond that are not read
ImageOk(rgb565_image, height, width) == Len(rgb565_image) >= height * width * 2

\* POST device_input, lines 100-108, with handle_device_input
\* (request_handler.py lines 94-103): the image is converted and saved
DeviceInput(body, client_id) ==
    /\ phase = "serving"
    /\ LET ok == ImageOk(body, InputHeight, InputWidth)
       IN  /\ input_image' = IF ok THEN SubSeq(body, 1, InputHeight * InputWidth * 2)
                              ELSE input_image
           /\ response' = [op |-> "device_input",
                           status |-> IF ok THEN 200 ELSE 500,
                           client_id |-> client_id]
    /\ UNCHANGED << phase, best_offloading_layer, devices, client_models,
                    local_inference_enabled, local_inference_probability,
                    device_inference_times, edge_inference_times,
                    layers_sizes, evaluations, last_k, n_reports, ewma_run >>
    /\ UNCHANGED << detectorVars, opt, otherVars >>

\* GET offloading_layer, lines 124-131
OffloadingLayer(client_id) ==
    /\ phase = "serving"
    /\ response' = [op |-> "offloading_layer", status |-> 200,
                    client_id |-> client_id,
                    offloading_layer_index |->
                        handle_offloading_layer(best_offloading_layer, client_id)]
    /\ UNCHANGED << input_image, phase, best_offloading_layer, devices, client_models,
                    local_inference_enabled, local_inference_probability,
                    device_inference_times, edge_inference_times,
                    layers_sizes, evaluations, last_k, n_reports, ewma_run >>
    /\ UNCHANGED << detectorVars, opt, otherVars >>

\* One call of handle_device_inference_result for the report rep and the
\* assignment of its result to best_offloading_layer, as each transport
\* makes them (http_server.py line 115, mqtt_client.py line 132); status is
\* 500 when the call raised
HandleReport(rep) ==
    /\ \E r \in {handle_device_inference_result(body_of[rep], Now, rep.env,
                                               rep.draw)} :
       LET flagged == r.stage # "parse" /\ FlaggedBy(Detector, rep.times, 0)
           pending == flagged_since_readout \/ flagged
           read == r.stage \in {"done", "optimiser"}
       IN  /\ device_inference_times' = r.device_store
           /\ edge_inference_times' = r.edge_store
           /\ evaluations' = r.log
           /\ SetDetector(r.vd)
           /\ best_offloading_layer' =
                  IF r.raised THEN best_offloading_layer ELSE r.returned[1]
           /\ response' = [op |-> "device_inference_result",
                           status |-> IF r.raised THEN 500 ELSE 200,
                           stage |-> r.stage,
                           well_formed |-> rep.kind = "well-formed",
                           layer_error |-> r.stage = "edge" /\ rep.env.fail_at # {},
                           sent_k |-> rep.k,
                           sent_times |-> rep.times,
                           prediction |-> r.prediction,
                           evaluated |-> r.evaluated,
                           forced |-> r.forced,
                           returned |-> r.returned]
           /\ last_k' = IF r.raised THEN last_k
                        ELSE [last_k EXCEPT ![rep.c] = r.returned]
           /\ n_reports' = IF r.stage = "parse" THEN n_reports
                           ELSE n_reports + 1
           /\ ewma_run' =
                  IF r.stage = "parse" THEN ewma_run
                  ELSE [device |-> DeviceRunsAfter(ewma_run.device,
                                       device_inference_times, rep.times, 0),
                        edge |-> EdgeRunsAfter(ewma_run.edge,
                                     edge_inference_times, r.evaluated,
                                     rep.env.elapsed, 1)]
           /\ readout' = IF read
                         THEN [op |-> "should_retest_offloading",
                               value |-> r.retest, pending |-> pending]
                         ELSE NoCall
           /\ flagged_since_readout' = IF read THEN FALSE ELSE pending
    /\ measured' = NoCall
    /\ UNCHANGED << input_image, phase, devices, client_models, layers_sizes,
                    local_inference_enabled, local_inference_probability,
                    n_measurements, opt >>

\* POST device_inference_result, lines 110-122, for the report rep
DeviceInferenceResult(rep) ==
    /\ phase = "serving"
    /\ n_reports < MaxReports
    /\ HandleReport(rep)
    /\ UNCHANGED otherVars

Next ==
    \/ EdgeInitialization
    \/ Registration([client_id |-> RefClient])
    \/ Registration([message |-> "hello"])
    \/ \E c \in Clients : OffloadingLayer(c)
    \/ \E rep \in Reports : DeviceInferenceResult(rep)

Spec == Init /\ [][Next]_vars

(***************************************************************************)
(* The variance detector on its own (VarianceDetector as the tests drive   *)
(* it): measurements for both sides, and the two readouts.                 *)
(***************************************************************************)
DetectorLayers == 0..MaxLayerId
\* raw wall times, in microseconds
DetectorTimes == {20, 40}

ServerIdle ==
    /\ ServerInit
    /\ ~local_inference_enabled
    /\ device_inference_times = << >>

InitDetector ==
    /\ ServerIdle
    /\ DetectorInit(DetectorWindow)
    /\ opt = NoCall
    /\ OthersIdle

AddDeviceMeasurement(layer_id, time) ==
    /\ n_measurements < MaxMeasurements
    /\ LET r == add_device_measurement(Detector, layer_id, time)
       IN  /\ SetDetector(r.vd)
           /\ measured' = [op |-> "add_device_measurement",
                           layer_id |-> layer_id,
                           samples |-> Len(r.vd.device_histories[layer_id]),
                           result |-> r.needs_retest]
           /\ flagged_since_readout' = (flagged_since_readout \/ r.needs_retest)
    /\ n_measurements' = n_measurements + 1
    /\ readout' = NoCall
    /\ UNCHANGED << serverVars, opt, otherVars >>

AddEdgeMeasurement(layer_id, time) ==
    /\ n_measurements < MaxMeasurements
    /\ LET r == add_edge_measurement(Detector, layer_id, time)
       IN  /\ SetDetector(r.vd)
           /\ measured' = [op |-> "add_edge_measurement",
                           layer_id |-> layer_id,
                           samples |-> Len(r.vd.edge_histories[layer_id]),
                           result |-> r.needs_retest]
           /\ flagged_since_readout' = (flagged_since_readout \/ r.needs_retest)
    /\ n_measurements' = n_measurements + 1
    /\ readout' = NoCall
    /\ UNCHANGED << serverVars, opt, otherVars >>

ShouldRetestOffloading ==
    /\ LET r == should_retest_offloading(Detector)
       IN  /\ SetDetector(r.vd)
           /\ readout' = [op |-> "should_retest_offloading",
                          value |-> r.needs_retest,
                          pending |-> flagged_since_readout]
    /\ flagged_since_readout' = FALSE
    /\ measured' = NoCall
    /\ UNCHANGED << serverVars, n_measurements, opt, otherVars >>

GetLayersNeedingRetest ==
    /\ readout' = [op |-> "get_layers_needing_retest",
                   value |-> get_layers_needing_retest(Detector)]
    /\ measured' = NoCall
    /\ UNCHANGED << serverVars, window_size, device_histories, edge_histories,
                    device_needs_retest, edge_needs_retest,
                    device_variance_layers, edge_variance_layers,
                    flagged_since_readout, n_measurements, opt, otherVars >>

NextDetector ==
    \/ \E l \in DetectorLayers, t \in DetectorTimes : AddDeviceMeasurement(l, t)
    \/ \E l \in DetectorLayers, t \in DetectorTimes : AddEdgeMeasurement(l, t)
    \/ ShouldRetestOffloading
    \/ GetLayersNeedingRetest

SpecDetector == InitDetector /\ [][NextDetector]_vars

(***************************************************************************)
(* The optimiser on its own (simulated_scenario.py): inputs are drawn in   *)
(* the initial state, either as three vectors or as layer sizes and a link *)
(* speed from which compute_network_times derives the network vector.      *)
(***************************************************************************)
TimeVectors(n) == SeqsOfLen(0..MaxTime, n)

\* network_times in every form the function accepts, and one it rejects
NetInputs(n) ==
    {ScalarNet(x) : x \in 0..MaxTime}
    \cup {VectorNet(v) : v \in TimeVectors(n + 1) \cup TimeVectors(n)
                                \cup TimeVectors(1)}
    \cup {VectorNet([j \in 1..(n + 2) |-> 0])}

\* the three vectors handed to offloading_algo directly
DirectInput ==
    \E n \in 1..MaxN :
        \E e \in TimeVectors(n), d \in TimeVectors(n), net \in NetInputs(n) :
            opt = [op |-> "input", edge_times |-> e, device_times |-> d,
                   network_times |-> net]

\* S1 and S2: N = 4, 5 ms per device layer, 1 ms per edge layer, 1000 bytes
ScenarioSizes == <<1000, 1000, 1000, 1000>>
ScenarioLayers == Len(ScenarioSizes)
ScenarioDevice == [j \in 1..ScenarioLayers |-> 5 * (TicksPerSecond \div 1000)]
ScenarioEdge == [j \in 1..ScenarioLayers |-> 1 * (TicksPerSecond \div 1000)]
ScenarioSpeeds == {10, 1000 * 1000}

SizeInputs ==
    {[op |-> "sizes", edge_times |-> ScenarioEdge,
      device_times |-> ScenarioDevice, layers_size |-> ScenarioSizes,
      network_speed |-> speed] : speed \in ScenarioSpeeds}

InitOptimiser ==
    /\ ServerIdle
    /\ DetectorInit(HandlerWindow)
    /\ (DirectInput \/ opt \in SizeInputs)
    /\ OthersIdle

\* network_times = compute_network_times(layers_size, speed, network_stability)
\* with a stable link (network_stability = 1)
ComputeNetworkTimes ==
    /\ opt.op = "sizes"
    /\ opt' = [op |-> "input", edge_times |-> opt.edge_times,
               device_times |-> opt.device_times,
               network_times |->
                   VectorNet(compute_network_times(opt.layers_size,
                                                   opt.network_speed, 1)),
               layers_size |-> opt.layers_size,
               network_speed |-> opt.network_speed]
    /\ UNCHANGED << serverVars, detectorVars, otherVars >>

\* best_layer, best_components = offloading_algo(edge_times, device_times, network_times)
OffloadingAlgo ==
    /\ opt.op = "input"
    /\ opt' = [op |-> "result", edge_times |-> opt.edge_times,
               device_times |-> opt.device_times,
               network_times |-> opt.network_times,
               from_sizes |-> "layers_size" \in DOMAIN opt,
               network_speed |-> IF "network_speed" \in DOMAIN opt
                                 THEN opt.network_speed ELSE 0,
               result |-> offloading_algo(opt.edge_times, opt.device_times,
                                          opt.network_times)]
    /\ UNCHANGED << serverVars, detectorVars, otherVars >>

NextOptimiser ==
    \/ ComputeNetworkTimes
    \/ OffloadingAlgo

SpecOptimiser == InitOptimiser /\ [][NextOptimiser]_vars

(***************************************************************************)
(* The edge process in MQTT mode (run_edge.py lines 51-67, mqtt_client.py). *)
(* The network loop of the MQTT library calls on_message, which queues a   *)
(* task; the worker thread takes the tasks one at a time and runs them.    *)
(* An exception that leaves a task leaves _worker too (lines 115-119 have  *)
(* no handler), and the thread ends.                                       *)
(***************************************************************************)
\* number of messages the broker delivers
MaxMessages == 3

\* the reference report: from client "A", split N-1, no times, fast link
RefReport ==
    Rep("well-formed", 0, RefClient, RefSplit, << >>, RefLatency, RefDraw, NoEdge)

\* payloads published on the device_inference_result topic: the reference
\* report, a payload the parser refuses and reports whose suffix execution
\* meets a failing layer
MqttReports ==
    {RefReport}
    \cup {rep \in MalformedReports : rep.kind = "output-odd"}
    \cup {rep \in WellFormedReports : rep.times = << >> /\ rep.env.fail_at # {}}

\* a server whose device store has a timing for every layer, so that the
\* optimiser accepts the vectors
InitMqtt ==
    /\ Init
    /\ DOMAIN device_inference_times = Layers

\* on_message, lines 121-127
MqttOnMessage(rep) ==
    /\ phase = "serving"
    /\ n_messages < MaxMessages
    /\ n_messages' = n_messages + 1
    /\ task_queue' = Append(task_queue, [id |-> n_messages', rep |-> rep])
    /\ UNCHANGED << serverVars, detectorVars, opt, worker, published >>
    /\ UNCHANGED << loopVars, clientVars, wire, sideVars, startVars >>

\* a queue that hands out the task put last (queue.LifoQueue)
task_queue_get_lifo(q) == [task |-> q[Len(q)], rest |-> SubSeq(q, 1, Len(q) - 1)]

\* self.task_queue.get(), line 117, of the queue.Queue of line 57: the task
\* put first, and the queue without it
task_queue_get(q) == [task |-> Head(q), rest |-> Tail(q)]

\* one turn of _worker, lines 115-119, running handle_message_task (lines
\* 129-136) for a message of the device_inference_result topic
MqttWorker ==
    /\ worker = "running"
    /\ task_queue # << >>
    /\ LET task == task_queue_get(task_queue).task
       IN  /\ HandleReport(task.rep)
           /\ task_queue' = task_queue_get(task_queue).rest
           /\ worker' = IF response'.status = 500 THEN "dead" ELSE "running"
           /\ published' =
                  IF response'.status = 500 THEN published
                  ELSE Append(published,
                              [id |-> task.id,
                               offloading_layer_index |->
                                   handle_offloading_layer(
                                       best_offloading_layer', None)])
    /\ UNCHANGED << n_messages, loopVars, clientVars, wire, sideVars, startVars >>

NextMqtt ==
    \/ EdgeInitialization
    \/ \E rep \in MqttReports : MqttOnMessage(rep)
    \/ MqttWorker

\* the worker thread is scheduled as long as it lives
SpecMqtt == InitMqtt /\ [][NextMqtt]_vars /\ WF_vars(MqttWorker)

\* the same transport with reports that carry the time of layer 0 as well
TimedMqttReports ==
    MqttReports \cup {rep \in WellFormedReports : Len(rep.times) = 1}

NextMqttTimed ==
    \/ EdgeInitialization
    \/ \E rep \in TimedMqttReports : MqttOnMessage(rep)
    \/ MqttWorker

SpecMqttTimed == InitMqtt /\ [][NextMqttTimed]_vars

(***************************************************************************)
(* The HTTP server as uvicorn runs it (http_server.py lines 74-139): the   *)
(* routes are coroutines (async def) of one event loop.  A coroutine keeps *)
(* the loop's thread until it awaits; handle_device_inference_result is an *)
(* ordinary call inside the route (line 115), so from the moment the body  *)
(* is read until the call returns the thread is inside it, the suffix      *)
(* execution included.  Requests go on arriving on the sockets meanwhile.  *)
(***************************************************************************)
\* number of requests the clients send
MaxRequests == 3

\* reports with a suffix to execute on the edge, none of whose layers fails
LoopReports ==
    {rep \in WellFormedReports :
        /\ rep.times = << >>
        /\ Suffix(rep.k) # {}
        /\ rep.env.fail_at = {}}

OtherClient == CHOOSE c \in Clients : c # RefClient

\* the requests a client may send: a report of client "A", or a GET
\* offloading_layer or a registration of the other client
LoopRequests ==
    {[kind |-> "device_inference_result", rep |-> rep] : rep \in LoopReports}
    \cup {[kind |-> "offloading_layer", client_id |-> OtherClient],
          [kind |-> "registration", client_id |-> OtherClient]}

\* the id of the report whose suffix is being executed, 0 if there is none
SuffixRunning ==
    IF loop_owner = NoCall THEN 0 ELSE loop_owner.id

\* the suffix execution numbered id, in progress when a request arrived, is
\* over
SuffixOver(id) == id # 0 /\ SuffixRunning # id

InitLoop ==
    /\ Init
    /\ DOMAIN device_inference_times = Layers

\* a request reaches the server: it waits for the event loop.  `during` is
\* the suffix execution in progress at that moment
HttpReceive(req) ==
    /\ phase = "serving"
    /\ n_requests < MaxRequests
    /\ n_requests' = n_requests + 1
    /\ http_inbox' = http_inbox
           \cup {[id |-> n_requests', req |-> req, during |-> SuffixRunning]}
    /\ UNCHANGED << serverVars, detectorVars, opt, mqttVars, clientVars, wire, sideVars, startVars, loop_owner >>

\* the loop resumes the route of a report (lines 110-115): the body is read
\* and the thread enters handle_device_inference_result
LoopEnterReport(m) ==
    /\ loop_owner = NoCall
    /\ m \in http_inbox
    /\ m.req.kind = "device_inference_result"
    /\ n_reports < MaxReports
    /\ loop_owner' = [op |-> "device_inference_result", id |-> m.id,
                      rep |-> m.req.rep]
    /\ http_inbox' = http_inbox \ {m}
    /\ UNCHANGED << serverVars, detectorVars, opt, mqttVars, clientVars, wire, sideVars, startVars, n_requests >>

\* handle_device_inference_result returns (or raises) and the route answers
LoopReturnReport ==
    /\ loop_owner # NoCall
    /\ HandleReport(loop_owner.rep)
    /\ loop_owner' = NoCall
    /\ UNCHANGED << mqttVars, clientVars, wire, sideVars, startVars, http_inbox, n_requests >>

\* the loop runs the route of a GET offloading_layer (lines 124-131)
LoopOffloadingLayer(m) ==
    /\ loop_owner = NoCall
    /\ m \in http_inbox
    /\ m.req.kind = "offloading_layer"
    /\ response' = [op |-> "offloading_layer", status |-> 200,
                    client_id |-> m.req.client_id,
                    offloading_layer_index |->
                        handle_offloading_layer(best_offloading_layer,
                                                m.req.client_id),
                    during |-> m.during,
                    completed |-> SuffixOver(m.during)]
    /\ http_inbox' = http_inbox \ {m}
    /\ UNCHANGED << input_image, phase, best_offloading_layer, devices, client_models,
                    local_inference_enabled, local_inference_probability,
                    device_inference_times, edge_inference_times,
                    layers_sizes, evaluations, last_k, n_reports, ewma_run >>
    /\ UNCHANGED << detectorVars, opt, mqttVars, clientVars, wire, sideVars, startVars, loop_owner, n_requests >>

\* the loop runs the route of a registration (lines 75-98)
LoopRegistration(m) ==
    /\ loop_owner = NoCall
    /\ m \in http_inbox
    /\ m.req.kind = "registration"
    /\ LET client_id == m.req.client_id
           assigned_model == assign_model_to_client(client_id)
       IN  /\ client_models' = WithClient(client_models, client_id, assigned_model)
           /\ devices' = devices \cup {client_id}
           /\ response' = [op |-> "registration", status |-> 200,
                           client_id |-> client_id,
                           model_name |-> assigned_model,
                           during |-> m.during,
                           completed |-> SuffixOver(m.during)]
    /\ http_inbox' = http_inbox \ {m}
    /\ UNCHANGED << input_image, phase, best_offloading_layer,
                    local_inference_enabled, local_inference_probability,
                    device_inference_times, edge_inference_times,
                    layers_sizes, evaluations, last_k, n_reports, ewma_run >>
    /\ UNCHANGED << detectorVars, opt, mqttVars, clientVars, wire, sideVars, startVars, loop_owner, n_requests >>

NextLoop ==
    \/ EdgeInitialization
    \/ \E req \in LoopRequests : HttpReceive(req)
    \/ \E m \in http_inbox : LoopEnterReport(m)
    \/ LoopReturnReport
    \/ \E m \in http_inbox : LoopOffloadingLayer(m)
    \/ \E m \in http_inbox : LoopRegistration(m)

SpecLoop == InitLoop /\ [][NextLoop]_vars

(***************************************************************************)
(* The HTTP server and its client records: registrations of every client,  *)
(* device inputs, GETs and reports, failing requests among them.           *)
(***************************************************************************)
\* reports of the reference kind, one refused by the parser and the ones
\* whose suffix execution meets a failing layer
RegistryReports ==
    {RefReport}
    \cup {rep \in MalformedReports : rep.kind = "output-odd"}
    \cup {rep \in WellFormedReports : rep.times = << >> /\ rep.env.fail_at # {}}

NextRegistry ==
    \/ EdgeInitialization
    \/ \E c \in Clients : Registration([client_id |-> c])
    \/ Registration([message |-> "hello"])
    \/ \E c \in Clients : OffloadingLayer(c)
    \/ \E c \in Clients, body \in ImageBodies : DeviceInput(body, c)
    \/ \E rep \in RegistryReports : DeviceInferenceResult(rep)

SpecRegistry == Init /\ [][NextRegistry]_vars

(***************************************************************************)
(* The steps of the start of the edge process                              *)
(***************************************************************************)
\* run_edge.py lines 16-37: the configuration is read; a model that is not
\* configured raises KeyError at line 37
StartLoadConfig ==
    /\ start_pc = "main"
    /\ start_pc' = IF settings.model_config THEN "edge_initialization"
                   ELSE "aborted"
    /\ UNCHANGED << serverVars, detectorVars, opt, mqttVars, loopVars,
                    clientVars, wire, sideVars, settings, offset, ntp_syncs, ntp_timers, uptime >>

\* run_edge.py line 38
StartEdgeInitialization ==
    /\ start_pc = "edge_initialization"
    /\ EdgeInitializationCall
    /\ start_pc' = "request_handler"
    /\ UNCHANGED << detectorVars, opt, mqttVars, loopVars, clientVars, wire, sideVars,
                    settings, offset, ntp_syncs, ntp_timers, uptime >>

\* RequestHandler.__init__, lines 54-66: enabled and probability are taken
\* as they are; with the mode enabled the probability is formatted with
\* '.0%' for the log (line 66), which raises for a value that is no number,
\* and no handler comes into being
StartRequestHandler ==
    /\ start_pc = "request_handler"
    /\ LET local_config == settings.local_inference_mode
           raises == local_config.enabled
                     /\ local_config.probability.kind # "number"
       IN  /\ start_pc' = IF raises THEN "aborted" ELSE "ntp_request"
           /\ local_inference_enabled' =
                  IF raises THEN local_inference_enabled
                  ELSE local_config.enabled
           /\ local_inference_probability' =
                  IF local_config.probability.kind = "number"
                  THEN local_config.probability.v
                  ELSE local_inference_probability
    /\ UNCHANGED << phase, best_offloading_layer, devices, client_models,
                    response, input_image, device_inference_times,
                    edge_inference_times, layers_sizes, evaluations, last_k,
                    n_reports, ewma_run >>
    /\ UNCHANGED << detectorVars, opt, mqttVars, loopVars, clientVars, wire, sideVars,
                    settings, offset, ntp_syncs, ntp_timers, uptime >>

\* HttpServer._sync_with_ntp, lines 48-55: one pass of the loop body.  An
\* answer returns the offset from inside the loop (line 53); NTPException
\* is caught (line 54); any other exception leaves the constructor
NtpRequest(outcome) ==
    /\ start_pc = "ntp_request"
    /\ CASE outcome = "offset" ->
              /\ offset' = <<NtpOffset>>
              /\ ntp_syncs' = ntp_syncs + 1
              /\ start_pc' = "setup_routes"
         [] outcome = "NTPException" ->
              /\ start_pc' = "ntp_retry"
              /\ UNCHANGED << offset, ntp_syncs >>
         [] outcome = "gaierror" ->
              /\ start_pc' = "aborted"
              /\ UNCHANGED << offset, ntp_syncs >>
    /\ UNCHANGED << serverVars, detectorVars, opt, mqttVars, loopVars,
                    clientVars, wire, sideVars, settings, ntp_timers, uptime >>

\* lines 55, 48 and 56: `continue`, then the test of the loop; the local
\* ntp_timestamp is assigned nowhere in the loop, so the loop is entered
\* again, and the Timer of line 56 is started only when the loop is left
NtpRetry ==
    /\ start_pc = "ntp_retry"
    /\ LET ntp_timestamp == None
       IN  IF ntp_timestamp = None
           THEN /\ start_pc' = "ntp_request"
                /\ UNCHANGED ntp_timers
           ELSE /\ start_pc' = "setup_routes"
                /\ ntp_timers' = ntp_timers + 1
    /\ UNCHANGED << serverVars, detectorVars, opt, mqttVars, loopVars,
                    clientVars, wire, sideVars, settings, offset, ntp_syncs, uptime >>

\* lines 43-44 and run(): the routes are set up and uvicorn listens
StartRun ==
    /\ start_pc = "setup_routes"
    /\ start_pc' = "listening"
    /\ UNCHANGED << serverVars, detectorVars, opt, mqttVars, loopVars,
                    clientVars, wire, sideVars, settings, offset, ntp_syncs, ntp_timers, uptime >>

\* 600 s pass while the server listens; a Timer that was started fires and
\* synchronises again
Tick ==
    /\ start_pc = "listening"
    /\ uptime < MaxUptime
    /\ uptime' = uptime + 1
    /\ ntp_syncs' = IF ntp_timers > 0 THEN ntp_syncs + 1 ELSE ntp_syncs
    /\ UNCHANGED << serverVars, detectorVars, opt, mqttVars, loopVars,
                    clientVars, wire, sideVars, settings, offset, ntp_timers, start_pc >>

\* the reports sent to the started server: the reference report with either
\* draw of random.random()
StartupReports ==
    {Rep("well-formed", 0, RefClient, RefSplit, << >>, RefLatency, draw, NoEdge) :
        draw \in Draws}

InitStartup ==
    /\ ServerInit
    /\ ~local_inference_enabled
    /\ device_inference_times # << >>
    /\ DetectorInit(HandlerWindow)
    /\ opt = NoCall
    /\ MqttInit
    /\ LoopInit
    /\ ClientInit
    /\ WireIdle
    /\ SideIdle
    /\ start_pc = "main"
    /\ settings \in Settings
    /\ offset = << >>
    /\ ntp_syncs = 0
    /\ ntp_timers = 0
    /\ uptime = 0

\* the steps of the process itself
StartupStep ==
    \/ StartLoadConfig
    \/ StartEdgeInitialization
    \/ StartRequestHandler
    \/ \E outcome \in NtpOutcomes : NtpRequest(outcome)
    \/ NtpRetry
    \/ StartRun

\* the requests of the devices, answered once the server listens
StartupRequest ==
    /\ start_pc = "listening"
    /\ \/ Registration([client_id |-> RefClient])
       \/ OffloadingLayer(RefClient)
       \/ \E rep \in StartupReports : DeviceInferenceResult(rep)

NextStartup ==
    \/ StartupStep
    \/ Tick
    \/ StartupRequest

\* the process is scheduled as long as it has a step to take
SpecStartup == InitStartup /\ [][NextStartup]_vars /\ WF_vars(StartupStep)

(***************************************************************************)
(* The timing stores under reports with any measured duration: the server  *)
(* of Spec, offered the reports of TimingReports.                          *)
(***************************************************************************)
NextTimes ==
    \/ EdgeInitialization
    \/ \E rep \in TimingReports : DeviceInferenceResult(rep)
    \/ \E c \in Clients : OffloadingLayer(c)

SpecTimes == Init /\ [][NextTimes]_vars

(***************************************************************************)
(* The device client (server_client_light/client/http_client.py).  What a  *)
(* request of the `requests` library yields is an outcome: a response with *)
(* a status and a JSON body, or an exception of the RequestException       *)
(* family (Timeout, ConnectionError).  A JSON body is the list of the      *)
(* values of the one key the client reads: empty when the key is absent.   *)
(***************************************************************************)
\* number of cycles of the client's loop
MaxCycles == 2

CLIENT_ID == RefClient
\* MODEL_CONFIG["last_offloading_layer"]: the last layer of the model
LAST_OFFLOADING_LAYER == NumLayers - 1

HttpResponse(status, json) == [kind |-> "response", status |-> status, json |-> json]
Timeout == [kind |-> "Timeout"]
ConnectionError == [kind |-> "ConnectionError"]
\* the exceptions `except requests.exceptions.RequestException` catches
IsRequestException(o) == o.kind \in {"Timeout", "ConnectionError"}

\* dict.get(key, default) on a JSON body
JsonGet(json, default) == IF json = << >> THEN default ELSE json[1]

\* register_device, lines 64-81: the value returned and the model it
\* leaves in the global MODEL_NAME
register_device(o, model_name) ==
    IF IsRequestException(o) THEN [returned |-> FALSE, MODEL_NAME |-> model_name]
    ELSE IF o.status = 200
    THEN [returned |-> TRUE, MODEL_NAME |-> JsonGet(o.json, "fomo_96x96")]
    ELSE [returned |-> FALSE, MODEL_NAME |-> model_name]

\* send_image, lines 86-106: the image file is read and packed (it is present
\* and has the configured size), then posted
send_image(o) ==
    [raised |-> FALSE, returned |-> ~IsRequestException(o)]

\* a GET without the try/except (as get_offloading_layer_random, lines 129-139)
get_offloading_layer_unguarded(o) ==
    IF IsRequestException(o) THEN [raised |-> TRUE, returned |-> None]
    ELSE IF o.status = 200
    THEN [raised |-> FALSE, returned |-> JsonGet(o.json, LAST_OFFLOADING_LAYER)]
    ELSE [raised |-> FALSE, returned |-> LAST_OFFLOADING_LAYER]

\* get_offloading_layer, lines 111-126
get_offloading_layer(o) ==
    IF IsRequestException(o)
    THEN [raised |-> FALSE, returned |-> LAST_OFFLOADING_LAYER]
    ELSE IF o.status = 200
    THEN [raised |-> FALSE, returned |-> JsonGet(o.json, LAST_OFFLOADING_LAYER)]
    ELSE [raised |-> FALSE, returned |-> LAST_OFFLOADING_LAYER]

\* TFLITE_DIR, line 42: the submodel files of the configured model, one for
\* each of the layers 0..LAST_OFFLOADING_LAYER
TFLITE_DIR == 0..LAST_OFFLOADING_LAYER

\* run_split_inference, lines 151-185: the submodels 0..stop_layer of
\* tflite_dir are run in order, and loading a missing one raises
run_split_inference(tflite_dir, stop_layer) ==
    LET stop == IF stop_layer = -1 THEN LAST_OFFLOADING_LAYER ELSE stop_layer
    IN  IF ~((0..stop) \subseteq tflite_dir)
        THEN [raised |-> TRUE, layers |-> {}, inference_times |-> 0]
        ELSE [raised |-> FALSE, layers |-> 0..stop, inference_times |-> stop + 1]

\* send_inference_result, lines 187-213
send_inference_result(o) ==
    [raised |-> FALSE, returned |-> ~IsRequestException(o)]

\* what the server, or the network, may answer to each request
StatusOutcomes == {HttpResponse(200, << >>), HttpResponse(500, << >>), Timeout,
                   ConnectionError}
LayerOutcomes ==
    {HttpResponse(200, <<k>>) : k \in -1..NumLayers} \cup StatusOutcomes

Call(fn, o, returned) == [fn |-> fn, outcome |-> o, returned |-> returned]

(***************************************************************************)
(* The client from its start: main() up to the loop (lines 218-236), with  *)
(* the HTTP server of SpecRegistry at the other end.  Before the server    *)
(* listens the connection is refused; a request may time out at any time.  *)
(***************************************************************************)
\* main() assigns MODEL_NAME (line 234) and has no `global MODEL_NAME`, so
\* in all of main the name is a local variable, which no statement before
\* lines 228 and 233 has bound
Unbound == "unbound"
MainLocals == [MODEL_NAME |-> Unbound]

\* register_device() answered by the registration route
ClientRegisterServed ==
    /\ client_pc = "register_device"
    /\ RegistrationRoute([client_id |-> CLIENT_ID])
    /\ LET o == HttpResponse(response'.status, <<response'.model_name>>)
           r == register_device(o, MODEL_NAME)
       IN  /\ MODEL_NAME' = r.MODEL_NAME
           /\ server_available' = r.returned
           /\ client_call' = <<Call("register_device", o, r.returned)>>
    /\ client_pc' = "main"
    /\ UNCHANGED << detectorVars, opt, mqttVars, loopVars, startVars, wire, sideVars, best_layer,
                    n_cycles, inference >>

\* register_device() while the server cannot be reached
ClientRegisterFailed(o) ==
    /\ client_pc = "register_device"
    /\ IsRequestException(o)
    /\ o = ConnectionError => phase = "boot"
    /\ LET r == register_device(o, MODEL_NAME)
       IN  /\ MODEL_NAME' = r.MODEL_NAME
           /\ server_available' = r.returned
           /\ client_call' = <<Call("register_device", o, r.returned)>>
    /\ client_pc' = "main"
    /\ UNCHANGED << serverVars, detectorVars, opt, mqttVars, loopVars, startVars, wire, sideVars,
                    best_layer, n_cycles, inference >>

\* main, lines 227-235: the read of main's MODEL_NAME at line 228 (server
\* available) or at line 233 (not available) raises UnboundLocalError when
\* the local is unbound; otherwise the loop is entered
ClientMain ==
    /\ client_pc = "main"
    /\ client_pc' = IF MainLocals.MODEL_NAME = Unbound THEN "raised"
                    ELSE "send_image"
    /\ UNCHANGED << serverVars, detectorVars, opt, mqttVars, loopVars, startVars, wire, sideVars,
                    MODEL_NAME, server_available, best_layer, n_cycles,
                    client_call, inference >>

InitClient ==
    /\ Init
    /\ ~local_inference_enabled
    /\ device_inference_times = << >>

NextClient ==
    \/ EdgeInitialization
    \/ \E c \in Clients \ {CLIENT_ID} : Registration([client_id |-> c])
    \/ \E c \in Clients : OffloadingLayer(c)
    \/ \E c \in Clients, body \in ImageBodies : DeviceInput(body, c)
    \/ ClientRegisterServed
    \/ \E o \in StatusOutcomes : ClientRegisterFailed(o)
    \/ ClientMain

SpecClient == InitClient /\ [][NextClient]_vars

(***************************************************************************)
(* The body of the client's loop (lines 237-254), from the head of the     *)
(* `while True`: send_image, get_offloading_layer, run_split_inference,    *)
(* send_inference_result, with every outcome the requests can have.        *)
(* client_call holds the requests of the cycle in progress, or of the last *)
(* cycle when none is in progress.                                         *)
(***************************************************************************)
InitClientLoop ==
    /\ ServerIdle
    /\ DetectorInit(HandlerWindow)
    /\ opt = NoCall
    /\ MqttInit
    /\ LoopInit
    /\ StartIdle
    /\ WireIdle
    /\ SideIdle
    /\ client_pc = "send_image"
    /\ \E r \in {register_device(o, None) : o \in StatusOutcomes
                    \cup {HttpResponse(200, <<"fomo_96x96">>)}} :
           /\ server_available = r.returned
           /\ MODEL_NAME = IF r.returned THEN r.MODEL_NAME ELSE "fomo_96x96"
    /\ best_layer = None
    /\ n_cycles = 0
    /\ client_call = << >>
    /\ inference = NoCall

\* line 239
ClientSendImage(o) ==
    /\ client_pc = "send_image"
    /\ n_cycles < MaxCycles
    /\ LET r == send_image(o)
       IN  /\ client_call' = <<Call("send_image", o, r.returned)>>
           /\ client_pc' = IF r.raised THEN "raised" ELSE "get_offloading_layer"
    /\ UNCHANGED << serverVars, detectorVars, opt, mqttVars, loopVars, startVars, wire, sideVars,
                    MODEL_NAME, server_available, best_layer, n_cycles, inference >>

\* line 242
ClientGetOffloadingLayer(o) ==
    /\ client_pc = "get_offloading_layer"
    /\ LET r == get_offloading_layer(o)
       IN  /\ client_call' = Append(client_call,
                                    Call("get_offloading_layer", o, r.returned))
           /\ best_layer' = IF r.raised THEN best_layer ELSE r.returned
           /\ client_pc' = IF r.raised THEN "raised" ELSE "run_split_inference"
    /\ UNCHANGED << serverVars, detectorVars, opt, mqttVars, loopVars, startVars, wire, sideVars,
                    MODEL_NAME, server_available, n_cycles, inference >>

\* lines 244-249
ClientRunSplitInference ==
    /\ client_pc = "run_split_inference"
    /\ LET r == run_split_inference(TFLITE_DIR, best_layer)
       IN  /\ inference' = IF r.raised THEN inference
                           ELSE [op |-> "run_split_inference",
                                 stop_layer |-> best_layer,
                                 layers |-> r.layers,
                                 inference_times |-> r.inference_times]
           /\ client_pc' = IF r.raised THEN "raised" ELSE "send_inference_result"
    /\ UNCHANGED << serverVars, detectorVars, opt, mqttVars, loopVars, startVars, wire, sideVars,
                    MODEL_NAME, server_available, best_layer, n_cycles,
                    client_call >>

\* lines 252-254, and back to the head of the loop
ClientSendInferenceResult(o) ==
    /\ client_pc = "send_inference_result"
    /\ LET r == send_inference_result(o)
       IN  /\ client_call' = Append(client_call,
                                    Call("send_inference_result", o, r.returned))
           /\ client_pc' = IF r.raised THEN "raised" ELSE "send_image"
           /\ n_cycles' = IF r.raised THEN n_cycles ELSE n_cycles + 1
    /\ UNCHANGED << serverVars, detectorVars, opt, mqttVars, loopVars, startVars, wire, sideVars,
                    MODEL_NAME, server_available, best_layer, inference >>

NextClientLoop ==
    \/ \E o \in StatusOutcomes : ClientSendImage(o)
    \/ \E o \in LayerOutcomes : ClientGetOffloadingLayer(o)
    \/ ClientRunSplitInference
    \/ \E o \in StatusOutcomes : ClientSendInferenceResult(o)

SpecClientLoop == InitClientLoop /\ [][NextClientLoop]_vars

(***************************************************************************)
(* One device report from send_inference_result to _from_raw.  The         *)
(* arguments are drawn at the start: the configured client id (an ASCII    *)
(* string of at most 9 characters; the generated one has 8), a message id  *)
(* of generate_message_id, every split the server can have served, an      *)
(* activation and the list of per-layer times.                             *)
(***************************************************************************)
\* config client.client_id: "A", an id of 8 characters as uuid4()[:8] gives
\* them, and "device_01"
WireClientIds ==
    {<<65>>,
     <<51, 102, 50, 97, 57, 99, 48, 98>>,
     <<100, 101, 118, 105, 99, 101, 95, 48, 49>>}
\* generate_message_id, lines 58-59: four characters of A-Z0-9
WireMessageIds == {MessageId, <<90, 57, 57, 65>>}
WireActivations == {<<7>>, <<8, 70000>>}
WireTimes ==
    {<< >>} \cup {<<x>> : x \in DeviceRaw}
        \cup {<<x, InitDeviceTime>> : x \in DeviceRaw}

WireArgs ==
    [timestamp : {Now - RefLatency}, client_id : WireClientIds,
     message_id : WireMessageIds, layer_index : -1..NumLayers,
     output_data : WireActivations, inference_times : WireTimes]

InitWire ==
    /\ ServerIdle
    /\ DetectorInit(HandlerWindow)
    /\ opt = NoCall
    /\ MqttInit
    /\ LoopInit
    /\ ClientInit
    /\ StartIdle
    /\ SideIdle
    /\ \E a \in WireArgs :
           wire = [pc |-> "send_inference_result", args |-> <<a>>,
                   buffer |-> << >>, message |-> << >>]

\* send_inference_result, lines 194-204: the buffer that is posted
WireSendInferenceResult ==
    /\ wire.pc = "send_inference_result"
    /\ LET a == wire.args[1]
       IN  wire' = [wire EXCEPT
               !.pc = "_from_raw",
               !.buffer = Report(a.timestamp, a.client_id, a.message_id,
                                 a.layer_index, a.output_data,
                                 a.inference_times)]
    /\ UNCHANGED << serverVars, detectorVars, opt, mqttVars, loopVars,
                    clientVars, startVars, sideVars >>

\* request_handler.py line 108: MessageData of the body received
WireFromRaw ==
    /\ wire.pc = "_from_raw"
    /\ wire' = [wire EXCEPT !.pc = "parsed", !.message = <<FromRaw(wire.buffer)>>]
    /\ UNCHANGED << serverVars, detectorVars, opt, mqttVars, loopVars,
                    clientVars, startVars, sideVars >>

NextWire ==
    \/ WireSendInferenceResult
    \/ WireFromRaw

SpecWire == InitWire /\ [][NextWire]_vars

(***************************************************************************)
(* One inference after another, split between the device and the edge,    *)
(* for models of 1..MaxLayers layers: Edge.initialization, then            *)
(* run_split_inference on the device with the split k it was handed and    *)
(* Edge.run_inference on the activation it reports (request_handler.py     *)
(* line 139).  The device has the submodels of the model the edge loads.   *)
(***************************************************************************)
\* largest model
MaxLayers == 3

\* len(model.layers) of the model the edge has loaded
ModelLayers == Cardinality(DOMAIN layers_sizes)

\* wall times and failures of the layer runtime while the edge runs the
\* layers after k of a model of n layers
EdgeEnvsFor(k, n) ==
    {[elapsed |-> [l \in (k + 1)..(n - 1) |-> x], fail_at |-> f] :
        x \in EdgeRaw,
        f \in {{}} \cup {{l} : l \in (k + 1)..(n - 1)}}

InitSplit ==
    /\ ServerIdle
    /\ DetectorInit(HandlerWindow)
    /\ opt = NoCall
    /\ OthersIdle

SplitEdgeInitialization(n) ==
    /\ EdgeInitializationFor(n)
    /\ UNCHANGED << detectorVars, opt, otherVars >>

\* http_client.py line 249, with the split k the server handed out
SplitRunSplitInference(k) ==
    /\ phase = "serving"
    /\ n_cycles < MaxCycles
    /\ inference = NoCall
    /\ LET r == run_split_inference(0..(ModelLayers - 1), k)
       IN  /\ ~r.raised
           /\ inference' = [op |-> "run_split_inference", stop_layer |-> k,
                            layers |-> r.layers,
                            inference_times |-> r.inference_times]
    /\ UNCHANGED << serverVars, detectorVars, opt, mqttVars, loopVars,
                    startVars, wire, sideVars, client_pc, MODEL_NAME, server_available,
                    best_layer, n_cycles, client_call >>

\* request_handler.py line 139 for the activation of the device's run
SplitRunInference ==
    /\ inference # NoCall
    /\ \E env \in EdgeEnvsFor(inference.stop_layer, ModelLayers) :
           LET k == inference.stop_layer
               r == run_inference(k, OutputOf(k), edge_inference_times,
                                  ModelLayers, env)
           IN  /\ edge_inference_times' = r.store
               /\ response' = [op |-> "run_inference",
                               offloading_layer_index |-> k,
                               elapsed |-> env.elapsed,
                               raised |-> r.raised,
                               evaluated |-> r.evaluated,
                               prediction |-> r.prediction]
    /\ inference' = NoCall
    /\ n_cycles' = n_cycles + 1
    /\ UNCHANGED << phase, best_offloading_layer, devices, client_models,
                    input_image, local_inference_enabled,
                    local_inference_probability, device_inference_times,
                    layers_sizes, evaluations, last_k, n_reports, ewma_run >>
    /\ UNCHANGED << detectorVars, opt, mqttVars, loopVars, startVars, wire, sideVars,
                    client_pc, MODEL_NAME, server_available, best_layer,
                    client_call >>

NextSplit ==
    \/ \E n \in 1..MaxLayers : SplitEdgeInitialization(n)
    \/ \E k \in 0..(MaxLayers - 1) : SplitRunSplitInference(k)
    \/ SplitRunInference

SpecSplit == InitSplit /\ [][NextSplit]_vars

(***************************************************************************)
(* request_handler.py lines 112-129 for two reports in both orders: the    *)
(* device timing file is read, updated with the times of the report and    *)
(* written back, once for each report.                                     *)
(***************************************************************************)
\* device_layers_inference_time of the two reports
OrderTimes == UNION {[1..m -> DeviceRaw] : m \in 0..NumLayers}

InitOrder ==
    /\ ServerInit
    /\ ~local_inference_enabled
    /\ DetectorInit(HandlerWindow)
    /\ opt = NoCall
    /\ MqttInit
    /\ LoopInit
    /\ ClientInit
    /\ StartIdle
    /\ WireIdle
    /\ CacheIdle
    /\ TwinIdle
    /\ SimIdle
    /\ \E a \in OrderTimes, b \in OrderTimes :
           pair = [pc |-> "first then second", first |-> a, second |-> b,
                   ab |-> << >>, ba |-> << >>]

\* lines 112-129 for a report with these times, on the file `store`
DeviceTimesAfter(store, times) ==
    ApplyDeviceTimes([store |-> store, vd |-> Detector], times, 0).store

\* the first report is handled, then the second
OrderFirstThenSecond ==
    /\ pair.pc = "first then second"
    /\ pair' = [pair EXCEPT
           !.pc = "second then first",
           !.ab = <<DeviceTimesAfter(
                      DeviceTimesAfter(device_inference_times, pair.first),
                      pair.second)>>]
    /\ UNCHANGED << serverVars, detectorVars, opt, mqttVars, loopVars,
                    clientVars, startVars, wire, interpreters, twin, sim >>

\* the second report is handled, then the first
OrderSecondThenFirst ==
    /\ pair.pc = "second then first"
    /\ pair' = [pair EXCEPT
           !.pc = "done",
           !.ba = <<DeviceTimesAfter(
                      DeviceTimesAfter(device_inference_times, pair.second),
                      pair.first)>>]
    /\ UNCHANGED << serverVars, detectorVars, opt, mqttVars, loopVars,
                    clientVars, startVars, wire, interpreters, twin, sim >>

NextOrder ==
    \/ OrderFirstThenSecond
    \/ OrderSecondThenFirst

SpecOrder == InitOrder /\ [][NextOrder]_vars

(***************************************************************************)
(* model_manager.py: the cache of layer runtimes.  Every ModelManager      *)
(* starts with an empty _interpreter_cache (line 77); Edge.initialization  *)
(* and every Edge.run_inference create a ModelManager of their own         *)
(* (edge_initialization.py lines 101 and 41-42) and evaluate their layers  *)
(* with it.                                                                *)
(***************************************************************************)
\* number of Edge.run_inference calls the model follows
MaxInferences == 3

\* the layers i..n-1 in order
LayersFrom(i, n) == [j \in 1..(IF n > i THEN n - i ELSE 0) |-> i + j - 1]

\* predict_single_layer, lines 161-180: the runtime of layer_key is taken
\* from the cache, or constructed and put into it
InterpreterFor(cache, created, layer_key) ==
    IF layer_key \notin cache
    THEN [cache |-> cache \cup {layer_key},
          created |-> [created EXCEPT ![layer_key] = @ + 1]]
    ELSE [cache |-> cache, created |-> created]

InitCache ==
    /\ ServerIdle
    /\ DetectorInit(HandlerWindow)
    /\ opt = NoCall
    /\ MqttInit
    /\ LoopInit
    /\ ClientInit
    /\ StartIdle
    /\ WireIdle
    /\ PairIdle
    /\ TwinIdle
    /\ SimIdle
    /\ \E n \in 1..MaxLayers :
           interpreters = [pc |-> "boot", cache |-> {}, pending |-> << >>,
                           created |-> [l \in 0..(n - 1) |-> 0], runs |-> 0]

\* Edge.initialization, lines 101-102: a new ModelManager for every layer
CacheInitialization ==
    /\ interpreters.pc = "boot"
    /\ interpreters' = [interpreters EXCEPT
           !.pc = "predicting",
           !.cache = {},
           !.pending = LayersFrom(0, Cardinality(DOMAIN interpreters.created))]
    /\ UNCHANGED << serverVars, detectorVars, opt, mqttVars, loopVars,
                    clientVars, startVars, wire, pair, twin, sim >>

\* Edge.run_inference, lines 41-43 and 48: a new ModelManager for the
\* layers after the split
CacheRunInference(offloading_layer_index) ==
    /\ interpreters.pc = "serving"
    /\ interpreters.runs < MaxInferences
    /\ interpreters' = [interpreters EXCEPT
           !.pc = "predicting",
           !.cache = {},
           !.pending = LayersFrom(offloading_layer_index + 1,
                                  Cardinality(DOMAIN interpreters.created)),
           !.runs = @ + 1]
    /\ UNCHANGED << serverVars, detectorVars, opt, mqttVars, loopVars,
                    clientVars, startVars, wire, pair, twin, sim >>

\* one turn of the loop over layers_to_use: predict_single_layer
CachePredictSingleLayer ==
    /\ interpreters.pc = "predicting"
    /\ interpreters.pending # << >>
    /\ LET r == InterpreterFor(interpreters.cache, interpreters.created,
                               Head(interpreters.pending))
       IN  interpreters' = [interpreters EXCEPT
               !.cache = r.cache,
               !.created = r.created,
               !.pending = Tail(interpreters.pending)]
    /\ UNCHANGED << serverVars, detectorVars, opt, mqttVars, loopVars,
                    clientVars, startVars, wire, pair, twin, sim >>

\* the call returns: its ModelManager is not kept
CacheReturn ==
    /\ interpreters.pc = "predicting"
    /\ interpreters.pending = << >>
    /\ interpreters' = [interpreters EXCEPT !.pc = "serving"]
    /\ UNCHANGED << serverVars, detectorVars, opt, mqttVars, loopVars,
                    clientVars, startVars, wire, pair, twin, sim >>

NextCache ==
    \/ CacheInitialization
    \/ \E k \in 0..(Cardinality(DOMAIN interpreters.created) - 1) :
           CacheRunInference(k)
    \/ CachePredictSingleLayer
    \/ CacheReturn

SpecCache == InitCache /\ [][NextCache]_vars

(***************************************************************************)
(* request_handler.py lines 105-172 run twice on the same report and the   *)
(* same timing files: the two executions differ in the state of            *)
(* RequestHandler.variance_detector, or in the value random.random()       *)
(* returns at line 84.                                                     *)
(***************************************************************************)
\* VarianceDetector(window_size=10, variance_threshold=0.15), line 52
FreshDetector ==
    [window_size |-> HandlerWindow,
     device_histories |-> << >>, edge_histories |-> << >>,
     device_needs_retest |-> FALSE, edge_needs_retest |-> FALSE,
     device_variance_layers |-> {}, edge_variance_layers |-> {}]

RECURSIVE AfterDeviceTimes(_, _, _)
\* the detector after the device times of layer l in `times`
AfterDeviceTimes(vd, l, times) ==
    IF times = << >> THEN vd
    ELSE AfterDeviceTimes(add_device_measurement(vd, l, Head(times)).vd, l,
                          Tail(times))

\* states of the detector: new, with a steady history of layer 0, with a
\* varying one that raised the flag, and the same after a readout
TwinDetectors ==
    LET steady == AfterDeviceTimes(FreshDetector, 0,
                                   <<1 * Scale, 1 * Scale, 1 * Scale>>)
        varying == AfterDeviceTimes(FreshDetector, 0,
                                    <<1 * Scale, 3 * Scale, 3 * Scale>>)
    IN  {FreshDetector, steady, varying, should_retest_offloading(varying).vd}

\* the two executions differ in the detector or in the draw
TwinInputs ==
    {[rep |-> rep, vd_left |-> v, vd_right |-> w, draw_left |-> d,
      draw_right |-> e] :
        rep \in TimingReports, v \in TwinDetectors, w \in TwinDetectors,
        d \in Draws, e \in Draws}

InitTwin ==
    /\ ServerInit
    /\ DetectorInit(HandlerWindow)
    /\ opt = NoCall
    /\ MqttInit
    /\ LoopInit
    /\ ClientInit
    /\ StartIdle
    /\ WireIdle
    /\ PairIdle
    /\ CacheIdle
    /\ SimIdle
    /\ \E in \in TwinInputs :
           /\ in.vd_left = in.vd_right \/ in.draw_left = in.draw_right
           /\ twin = [pc |-> "left", input |-> <<in>>, left |-> << >>,
                      right |-> << >>]

TwinLeft ==
    /\ phase = "serving"
    /\ twin.pc = "left"
    /\ LET in == twin.input[1]
       IN  twin' = [twin EXCEPT
               !.pc = "right",
               !.left = <<HandleWith(in.vd_left, body_of[in.rep], Now,
                                     in.rep.env, in.draw_left)>>]
    /\ UNCHANGED << serverVars, detectorVars, opt, mqttVars, loopVars,
                    clientVars, startVars, wire, pair, interpreters, sim >>

TwinRight ==
    /\ phase = "serving"
    /\ twin.pc = "right"
    /\ LET in == twin.input[1]
       IN  twin' = [twin EXCEPT
               !.pc = "done",
               !.right = <<HandleWith(in.vd_right, body_of[in.rep], Now,
                                      in.rep.env, in.draw_right)>>]
    /\ UNCHANGED << serverVars, detectorVars, opt, mqttVars, loopVars,
                    clientVars, startVars, wire, pair, interpreters, sim >>

NextTwin ==
    \/ EdgeInitialization
    \/ TwinLeft
    \/ TwinRight

SpecTwin == InitTwin /\ [][NextTwin]_vars

(***************************************************************************)
(* simulation_runner.py: run_scenario starts the clients of a scenario     *)
(* (lines 470-474).  For each client it rewrites the one configuration     *)
(* file of the client directory, sleeps, and starts a client process; the  *)
(* process reads the file when its imports are done (http_client.py lines  *)
(* 1-28), at a moment the runner does not wait for.  The file holds the    *)
(* client_id entry: 0 for null, i for "sim_client_i".                      *)
(***************************************************************************)
\* scenario['num_clients'] is at most
NumClients == 3

\* the file between open(..., 'w') and yaml.dump
Truncated == -1

\* the id the runner means client_index to have
ConfiguredId(client_index) ==
    IF client_index = 0 THEN [kind |-> "auto", n |-> 0]
    ELSE [kind |-> "sim_client", n |-> client_index]

NoClientId == [kind |-> "unset", n |-> 0]

InitSim ==
    /\ ServerIdle
    /\ DetectorInit(HandlerWindow)
    /\ opt = NoCall
    /\ MqttInit
    /\ LoopInit
    /\ ClientInit
    /\ StartIdle
    /\ WireIdle
    /\ PairIdle
    /\ CacheIdle
    /\ TwinIdle
    /\ \E n \in 1..NumClients :
           sim = [pc |-> "update_client_config", index |-> 0, file |-> 0,
                  clients |-> [c \in 0..(n - 1) |->
                                  [pc |-> "not started",
                                   client_id |-> NoClientId]]]

\* update_client_config, lines 199-214: the file is read, the entry is set
\* and the file is opened for writing
SimOpenConfig ==
    /\ sim.pc = "update_client_config"
    /\ sim' = [sim EXCEPT !.pc = "yaml.dump", !.file = Truncated]
    /\ UNCHANGED << serverVars, detectorVars, opt, mqttVars, loopVars,
                    clientVars, startVars, wire, pair, interpreters, twin >>

\* update_client_config, lines 203-207 and 215: None for client 0,
\* "sim_client_<index>" for the others
SimDumpConfig ==
    /\ sim.pc = "yaml.dump"
    /\ sim' = [sim EXCEPT !.pc = "start_client", !.file = sim.index]
    /\ UNCHANGED << serverVars, detectorVars, opt, mqttVars, loopVars,
                    clientVars, startVars, wire, pair, interpreters, twin >>

\* run_scenario line 473 and start_client, lines 338-361: Popen returns at
\* once, and the loop goes on to the next client
SimStartClient ==
    /\ sim.pc = "start_client"
    /\ sim' = [sim EXCEPT
           !.pc = IF sim.index + 1 \in DOMAIN sim.clients
                  THEN "update_client_config" ELSE "monitor",
           !.index = @ + 1,
           !.clients[sim.index].pc = "importing"]
    /\ UNCHANGED << serverVars, detectorVars, opt, mqttVars, loopVars,
                    clientVars, startVars, wire, pair, interpreters, twin >>

\* http_client.py lines 20-28 in the process of client c: a file without
\* content loads as None and config["client"] raises; a null entry gives a
\* generated id, which no other process has
SimClientLoadConfig(c) ==
    /\ sim.clients[c].pc = "importing"
    /\ sim' = [sim EXCEPT
           !.clients[c] =
               IF sim.file = Truncated
               THEN [pc |-> "raised", client_id |-> NoClientId]
               ELSE IF sim.file = 0
               THEN [pc |-> "running", client_id |-> [kind |-> "auto", n |-> c]]
               ELSE [pc |-> "running",
                     client_id |-> [kind |-> "sim_client", n |-> sim.file]]]
    /\ UNCHANGED << serverVars, detectorVars, opt, mqttVars, loopVars,
                    clientVars, startVars, wire, pair, interpreters, twin >>

NextSim ==
    \/ SimOpenConfig
    \/ SimDumpConfig
    \/ SimStartClient
    \/ \E c \in DOMAIN sim.clients : SimClientLoadConfig(c)

SpecSim == InitSim /\ [][NextSim]_vars

(***************************************************************************)
(* Properties of the server (Spec)                                         *)
(***************************************************************************)
IsReportResponse == response.op = "device_inference_result"
IsSplitResponse == response.op = "offloading_layer"

\* C1: GET offloading_layer with client_id = c returns the k* computed by the
\* most recent successfully handled report of c itself, whatever reports of
\* other clients were handled in between.
C1_ServedPerClient ==
    (IsSplitResponse /\ last_k[response.client_id] # << >>)
    => response.offloading_layer_index = last_k[response.client_id][1]

\* C2: GET offloading_layer for a client that has never registered or
\* reported returns the configured last_offloading_layer, without error.
C2_UnknownClientDefault ==
    (/\ IsSplitResponse
     /\ last_k[response.client_id] = << >>
     /\ response.client_id \notin devices)
    => /\ response.status = 200
       /\ response.offloading_layer_index = last_offloading_layer

\* C5: with the mode enabled and probability 1.0 every report that gets past
\* the edge returns -1; with the mode disabled (even with probability 1.0)
\* or with probability 0.0 the gate never fires and the handler never
\* returns -1.
C5_RefresherGate ==
    IsReportResponse
    => /\ (/\ local_inference_enabled
           /\ local_inference_probability = 100
           /\ response.stage \notin {"parse", "edge"})
          => /\ response.status = 200
             /\ response.forced
             /\ response.returned = << -1 >>
       /\ (~local_inference_enabled \/ local_inference_probability = 0)
          => /\ ~response.forced
             /\ response.returned # << -1 >>

\* a handled report under (enabled, 1.0) whose answer is -1, after edge layers
\* were evaluated for it
C5_Witness ==
    /\ IsReportResponse
    /\ local_inference_enabled
    /\ local_inference_probability = 100
    /\ response.status = 200
    /\ response.evaluated # << >>
    /\ response.returned = << -1 >>

\* C8: for a model of N layers a report with k = -1 or k >= N - 1 makes the
\* edge return the device's activation unchanged as the prediction; no layer
\* is evaluated on the edge for that report.
C8_TerminalIdentity ==
    (/\ IsReportResponse
     /\ response.stage # "parse"
     /\ (response.sent_k = -1 \/ response.sent_k >= NumLayers - 1))
    => /\ response.prediction = Prediction(OutputOf(response.sent_k), << >>)
       /\ response.evaluated = << >>

\* 5^n * T = 4^n * old + (5^n - 4^n) * x: the entry after a run of n updates
\* with the raw time x that began at old (a seeding run has old = x)
RunHolds(T, run) ==
    /\ run.n >= 1
    /\ run.seeded => run.old = run.x
    /\ Pow(5, run.n) * T
           = Pow(4, run.n) * run.old + (Pow(5, run.n) - Pow(4, run.n)) * run.x

\* C9: a raw time x for layer i updates the stored timing to 0.2*x + 0.8*T[i]
\* when the entry exists and seeds it with x otherwise, for device reports
\* and edge layer executions alike; n consecutive updates with a constant x
\* yield old*0.8^n + x*(1 - 0.8^n).
C9_Ewma ==
    /\ \A l \in DOMAIN ewma_run.device :
           /\ l \in DOMAIN device_inference_times
           /\ RunHolds(device_inference_times[l], ewma_run.device[l])
    /\ \A l \in DOMAIN ewma_run.edge :
           /\ l \in DOMAIN edge_inference_times
           /\ RunHolds(edge_inference_times[l], ewma_run.edge[l])

\* a device entry after two updates with one raw time that differs from the
\* entry they started from, next to edge entries that were seeded
C9_Witness ==
    /\ \E l \in DOMAIN ewma_run.device :
           /\ ewma_run.device[l].n = 2
           /\ ~ewma_run.device[l].seeded
           /\ ewma_run.device[l].x # ewma_run.device[l].old
    /\ \E l \in DOMAIN ewma_run.edge : ewma_run.edge[l].seeded

\* C10: a report that fails to parse (short payload, size fields that do not
\* fit the payload) is dropped by the parser and leaves the timing stores,
\* the detector's histories and flags, the evaluation log and the served
\* split index as they were before the request.
C10_ParseErrorNoMutation ==
    [][(response'.op = "device_inference_result"
        /\ ~response'.well_formed)
       => /\ response'.stage = "parse"
          /\ UNCHANGED << device_inference_times, edge_inference_times,
                          device_histories, edge_histories,
                          device_needs_retest, edge_needs_retest,
                          device_variance_layers, edge_variance_layers,
                          evaluations, best_offloading_layer >>]_vars

\* a malformed payload is refused after an earlier report has left its
\* traces in the stores, the detector and the log
C10_Witness ==
    /\ IsReportResponse
    /\ ~response.well_formed
    /\ response.stage = "parse"
    /\ evaluations # << >>
    /\ device_histories # << >>

\* C11: a layer runtime error during the edge suffix execution fails only
\* that inference: the device timing store, the edge timing store, the
\* variance detector and the served split index are what they were before
\* the request.
C11_RuntimeErrorNoMutation ==
    [][(response'.op = "device_inference_result" /\ response'.layer_error)
       => /\ response'.status = 500
          /\ UNCHANGED << device_inference_times, edge_inference_times,
                          window_size, device_histories, edge_histories,
                          device_needs_retest, edge_needs_retest,
                          device_variance_layers, edge_variance_layers,
                          best_offloading_layer >>]_vars

(***************************************************************************)
(* Properties of the client records (SpecRegistry)                         *)
(***************************************************************************)
\* C14: registration is idempotent.  There is exactly one record per
\* registered client_id; registering a client_id that is already
\* registered answers the model it already has and changes no record;
\* registering a new client_id adds exactly one record, mapped to the model
\* it was answered, and leaves the other records as they are.
C14_RegistrationIdempotent ==
    /\ [](DOMAIN client_models = devices)
    /\ [][response'.op = "registration"
          => LET c == response'.client_id
             IN  /\ response'.status = 200
                 /\ c \in devices
                    => /\ devices' = devices
                       /\ client_models' = client_models
                       /\ response'.model_name = client_models[c]
                 /\ c \notin devices
                    => /\ devices' = devices \cup {c}
                       /\ Cardinality(devices') = Cardinality(devices) + 1
                       /\ DOMAIN client_models' = devices'
                       /\ client_models'[c] = response'.model_name
                       /\ \A d \in devices : client_models'[d] = client_models[d]]_vars

\* a client registers again while three distinct clients are registered
C14_Witness ==
    /\ response.op = "registration"
    /\ response.known
    /\ Cardinality(devices) = Cardinality(Clients) + 1
    /\ \A c \in devices : client_models[c] = response.model_name

\* C15: the client records only grow.  No request (device input, report,
\* GET offloading_layer, a request that fails) removes a registered client
\* or changes its model; the model of a client can change only in a
\* registration of that client.
C15_RecordsOnlyGrow ==
    [][/\ devices \subseteq devices'
       /\ DOMAIN client_models \subseteq DOMAIN client_models'
       /\ \A c \in DOMAIN client_models :
              client_models'[c] # client_models[c]
              => /\ response'.op = "registration"
                 /\ response'.client_id = c]_vars

\* a request has just failed, after a device input was saved, and the
\* clients registered before are all still there
C15_Witness ==
    /\ response.op \in {"device_input", "device_inference_result"}
    /\ response.status = 500
    /\ input_image # None
    /\ Clients \subseteq devices
    /\ DOMAIN client_models = devices

(***************************************************************************)
(* Properties of the MQTT transport (SpecMqtt)                             *)
(***************************************************************************)
Queued(i, rep) == \E j \in DOMAIN task_queue : task_queue[j] = [id |-> i, rep |-> rep]
Answered(i) == \E j \in DOMAIN published : published[j].id = i

\* C12: a report whose handling raises is fatal for that request only: every
\* well-formed report received afterwards (or at any time) is eventually
\* handled and answered with a split index.  Stated for the MQTT transport:
\* each queued reference report is eventually answered.
C12_FatalForRequestOnly ==
    \A i \in 1..MaxMessages : Queued(i, RefReport) ~> Answered(i)

(***************************************************************************)
(* Properties of the event loop (SpecLoop)                                 *)
(***************************************************************************)
\* C13: a GET offloading_layer or a registration of another client that
\* arrives while a report's edge suffix is being executed is answered from
\* the state already computed, without waiting for that execution to
\* complete: when it is answered, the execution is still in progress.
C13_AnsweredWithoutWaiting ==
    (/\ response.op \in {"offloading_layer", "registration"}
     /\ response.during # 0)
    => ~response.completed

(***************************************************************************)
(* Properties of the optimiser (SpecOptimiser)                             *)
(***************************************************************************)
\* the sum of s[i] for a <= i <= b
RECURSIVE SumRange(_, _, _)
SumRange(s, a, b) == IF a > b THEN 0 ELSE s[b] + SumRange(s, a, b - 1)

\* net[k], k = 0..N, for each accepted form of the network vector
NetAt(net, N, k) ==
    IF net.scalar THEN net.v
    ELSE IF Len(net.v) = N + 1 THEN net.v[k + 1]
    ELSE IF Len(net.v) = N THEN (IF k = N THEN net.v[N] ELSE net.v[k + 1])
    ELSE net.v[1]

NetAccepted(net, N) == net.scalar \/ Len(net.v) \in {1, N, N + 1}

\* total[k] = sum of T_device[i], i < k, + net[k] + sum of T_edge[j], j >= k
TotalOf(o, k) ==
    LET N == Len(o.device_times)
    IN  SumRange(o.device_times, 1, k) + NetAt(o.network_times, N, k)
            + SumRange(o.edge_times, k + 1, N)

PredictedTotal(o) ==
    o.result.best_components.dev_prefix + o.result.best_components.edge_suffix
        + o.result.best_components.network_time

\* C3: for N >= 1 and any device, edge and net vectors the optimiser returns
\* k* in 0..N whose total is minimal, and the smallest such k.
C3_ArgminLowestTie ==
    (opt.op = "result" /\ NetAccepted(opt.network_times, Len(opt.device_times)))
    => LET N == Len(opt.device_times)
           best == opt.result.best_k
       IN  /\ opt.result.ok
           /\ best \in 0..N
           /\ \A k \in 0..N : TotalOf(opt, best) <= TotalOf(opt, k)
           /\ \A k \in 0..N : k < best => TotalOf(opt, best) < TotalOf(opt, k)
           /\ PredictedTotal(opt) = TotalOf(opt, best)

\* a result whose minimum is attained by several k, the first of them not 0
C3_Witness ==
    /\ opt.op = "result"
    /\ opt.result.ok
    /\ opt.result.best_k > 0
    /\ \E k \in 0..Len(opt.device_times) :
          k > opt.result.best_k /\ TotalOf(opt, k) = TotalOf(opt, opt.result.best_k)

\* the result of scenario S2: slow link of 10 bytes/s
IsS2 ==
    /\ opt.op = "result"
    /\ opt.from_sizes
    /\ opt.network_speed = 10
    /\ opt.device_times = ScenarioDevice
    /\ opt.edge_times = ScenarioEdge

\* 0.020 s and 0.394625 s in ticks
MicrosToTicks(us) == (us * 1024) \div 100
S2ClaimedTotal == MicrosToTicks(20000)
S2Total == MicrosToTicks(394625)
S2Net == MicrosToTicks(390625)

\* C4 as stated: in scenario S2 the optimiser returns k* = N = 4 with a
\* predicted total of 0.020 s.
C4_Original ==
    IsS2 => opt.result.best_k = ScenarioLayers /\ PredictedTotal(opt) = S2ClaimedTotal

\* C4 amended: in scenario S2 every split pays the same network time
\* 1000*4/1024/10 = 0.390625 s (net[N] = net[N-1]), and the optimiser returns
\* k* = 0 with a predicted total of 0.394625 s.
C4_S2ReturnsZero ==
    IsS2 => /\ opt.result.ok
            /\ opt.result.best_k = 0
            /\ PredictedTotal(opt) = S2Total
            /\ \A k \in 0..ScenarioLayers :
                  NetAt(opt.network_times, ScenarioLayers, k) = S2Net

C4_Witness == IsS2 /\ opt.result.best_k = 0

(***************************************************************************)
(* Properties of the variance detector (SpecDetector)                      *)
(***************************************************************************)
\* every layer id a readout can name: the measured layers and their successors
CascadeLayers == 0..(MaxLayerId + 1)

\* C6: for each side independently get_layers_needing_retest returns exactly
\* the layers of that side's unstable set and their immediate successors, no
\* layer further downstream; a layer whose window shows CV > threshold is in
\* the readout of its own side together with its successor.
C6_CascadeOneStep ==
    readout.op = "get_layers_needing_retest"
    => /\ readout.value.device =
              {j \in CascadeLayers : j \in device_variance_layers
                                       \/ j - 1 \in device_variance_layers}
       /\ readout.value.edge =
              {j \in CascadeLayers : j \in edge_variance_layers
                                       \/ j - 1 \in edge_variance_layers}
       /\ \A l \in DOMAIN device_histories :
              (Len(device_histories[l]) >= MinSamples /\ CvExceeds(device_histories[l]))
              => {l, l + 1} \subseteq readout.value.device
       /\ \A l \in DOMAIN edge_histories :
              (Len(edge_histories[l]) >= MinSamples /\ CvExceeds(edge_histories[l]))
              => {l, l + 1} \subseteq readout.value.edge

\* a readout where layer 0 is unstable on the device side only and the edge
\* has measured the same layer without flagging it
C6_Witness ==
    /\ readout.op = "get_layers_needing_retest"
    /\ device_variance_layers = {0}
    /\ 0 \in DOMAIN edge_histories
    /\ readout.value.device = {0, 1}
    /\ readout.value.edge = {}

\* C7: should_retest_offloading returns true iff a device or edge measurement
\* added since the previous readout (or since creation) flagged its layer;
\* the readout clears the flags, whatever the windows look like by then.
C7_EdgeTriggered ==
    readout.op = "should_retest_offloading"
    => /\ readout.value = readout.pending
       /\ ~device_needs_retest
       /\ ~edge_needs_retest

\* a readout that reports a flag raised earlier although every window has
\* become stable again by the time of the readout
C7_Witness ==
    /\ readout.op = "should_retest_offloading"
    /\ readout.value
    /\ \A l \in DOMAIN device_histories : ~HasSignificantVariance(device_histories[l])
    /\ \A l \in DOMAIN edge_histories : ~HasSignificantVariance(edge_histories[l])
    /\ \E l \in DOMAIN device_histories : Len(device_histories[l]) >= MinSamples


(***************************************************************************)
(* Properties of the device client (SpecClientLoop, SpecClient)            *)
(***************************************************************************)
\* the GET of the cycle in client_call, when it has been made
CycleGet == client_call[2]
GetMade == Len(client_call) >= 2
\* the GET did not bring an answer: transport error or a status other than 200
GetFailed(call) ==
    \/ IsRequestException(call.outcome)
    \/ call.outcome.kind = "response" /\ call.outcome.status # 200

\* C16: in the loop body, a failed GET of the offloading layer (transport
\* error or a non-200 status) makes the client fall back to running every
\* layer locally (the split is LAST_OFFLOADING_LAYER and the layers
\* 0..LAST_OFFLOADING_LAYER are run); no transport error of any of the three
\* requests ends the loop (the loop ends only when the server answered 200
\* with a split that has no submodel): the cycle is completed and the loop
\* is back at its head, where the next cycle sends its requests again.
C16_GetFallback ==
    /\ (GetMade /\ GetFailed(CycleGet))
       => /\ client_pc # "raised"
          /\ CycleGet.returned = LAST_OFFLOADING_LAYER
          /\ best_layer = LAST_OFFLOADING_LAYER
          /\ (Len(client_call) = 2 /\ client_pc # "run_split_inference")
             => /\ client_pc = "send_inference_result"
                /\ inference.stop_layer = LAST_OFFLOADING_LAYER
                /\ inference.layers = 0..LAST_OFFLOADING_LAYER
    /\ client_pc = "raised"
       => /\ Len(client_call) = 2
          /\ ~GetFailed(CycleGet)
          /\ run_split_inference(TFLITE_DIR, CycleGet.returned).raised
    /\ Len(client_call) = 3
       => /\ client_pc = "send_image"
          /\ n_cycles >= 1
          /\ n_cycles < MaxCycles => ENABLED (\E o \in StatusOutcomes : ClientSendImage(o))

\* the second cycle, after a first one was completed: the image upload and
\* the GET both met a transport error, every layer has been run locally and
\* the result is about to be sent
C16_Witness ==
    /\ n_cycles = 1
    /\ Len(client_call) = 2
    /\ client_call[1].outcome = ConnectionError
    /\ CycleGet.outcome = Timeout
    /\ client_pc = "send_inference_result"
    /\ inference.layers = 0..LAST_OFFLOADING_LAYER

\* C17: when the server cannot be reached at startup the client adopts the
\* default model 'fomo_96x96' and enters its loop; after a successful
\* registration it enters the loop with the assigned model.
C17_StartupEntersLoop ==
    /\ client_pc # "raised"
    /\ client_pc = "send_image"
       => MODEL_NAME = IF server_available THEN client_models[CLIENT_ID]
                       ELSE "fomo_96x96"


(***************************************************************************)
(* Further properties of the variance detector (SpecDetector)              *)
(***************************************************************************)
\* C18: a layer whose history on a side holds fewer than 3 measurements is
\* never flagged.  A measurement that leaves the history with fewer than 3
\* samples returns false, adds no layer to the unstable set of its side and
\* leaves the retest flag of its side as it was, whatever the values are;
\* and at any time the unstable sets hold only layers with 3 samples or more.
C18_FewSamplesNeverFlag ==
    /\ [](\A l \in device_variance_layers :
              (l \in DOMAIN device_histories
               /\ Len(device_histories[l]) >= MinSamples))
    /\ [](\A e \in edge_variance_layers :
              (e \in DOMAIN edge_histories
               /\ Len(edge_histories[e]) >= MinSamples))
    /\ [][(measured'.op = "add_device_measurement"
            /\ measured'.samples < MinSamples)
           => /\ ~measured'.result
              /\ device_variance_layers' = device_variance_layers
              /\ device_needs_retest' = device_needs_retest]_vars
    /\ [][(measured'.op = "add_edge_measurement"
            /\ measured'.samples < MinSamples)
           => /\ ~measured'.result
              /\ edge_variance_layers' = edge_variance_layers
              /\ edge_needs_retest' = edge_needs_retest]_vars

\* the second measurement of a layer differs from the first by a factor of
\* two (a coefficient of variation far above the threshold) and returns false
C18_Witness ==
    /\ measured.op = "add_device_measurement"
    /\ measured.samples = 2
    /\ ~measured.result
    /\ CvExceeds(device_histories[measured.layer_id])
    /\ measured.layer_id \notin device_variance_layers
    /\ ~device_needs_retest


(***************************************************************************)
(* Boundary behaviour of the optimiser (SpecOptimiser)                     *)
(***************************************************************************)
AllZero(s) == \A i \in 1..Len(s) : s[i] = 0

\* a result of offloading_algo for vectors it accepts
IsResult == opt.op = "result" /\ opt.result.ok

\* the result for edge times that are all zero
ZeroEdgeResult == IsResult /\ AllZero(opt.edge_times)
\* the result for device times that are all zero
ZeroDeviceResult == IsResult /\ AllZero(opt.device_times)

\* C19 as stated: for every N >= 1, every T_device and every admissible net
\* vector, if T_edge[i] = 0 for all i the optimiser returns k* = 0.
C19_Original ==
    ZeroEdgeResult => opt.result.best_k = 0

\* C19 amended: with T_edge[i] = 0 for all i the optimiser returns k* = 0
\* exactly when no split is cheaper than sending the input, that is when
\* net[0] <= net[k] + sum of T_device[i], i < k, for every k in 1..N; this is
\* so in particular for a scalar or one-entry net and for any net whose first
\* entry is its smallest.  Otherwise it returns the lowest k that minimises
\* net[k] + sum of T_device[i], i < k.
C19_ZeroEdge ==
    ZeroEdgeResult
    => LET N == Len(opt.device_times)
           net(k) == NetAt(opt.network_times, N, k)
           dev(k) == SumRange(opt.device_times, 1, k)
           best == opt.result.best_k
       IN  /\ best = 0 <=> \A k \in 1..N : net(0) <= net(k) + dev(k)
           /\ (\A k \in 1..N : net(0) <= net(k)) => best = 0
           /\ \A k \in 0..N : net(best) + dev(best) <= net(k) + dev(k)
           /\ \A k \in 0..N : k < best => net(best) + dev(best) < net(k) + dev(k)

\* zero edge times, a net vector whose first entry is not its smallest, and
\* a split other than 0 is returned
C19_Witness ==
    /\ ZeroEdgeResult
    /\ ~opt.network_times.scalar
    /\ Len(opt.network_times.v) = Len(opt.device_times) + 1
    /\ opt.result.best_k > 0

\* C20 as stated: for every N >= 1, every T_edge and every admissible net
\* vector (including the rule net[N] = net[N-1]), if T_device[i] = 0 for all
\* i the optimiser returns k* = N.
C20_Original ==
    ZeroDeviceResult => opt.result.best_k = Len(opt.device_times)

\* C20 amended: with T_device[i] = 0 for all i the optimiser returns k* = N
\* exactly when running everything on the device is strictly cheaper than
\* every other split, that is when net[N] < net[k] + sum of T_edge[j], j >= k,
\* for every k < N; with a scalar or one-entry net, or under the rule
\* net[N] = net[N-1], this requires T_edge[N-1] > 0.  Otherwise it returns
\* the lowest k that minimises net[k] + sum of T_edge[j], j >= k.
C20_ZeroDevice ==
    ZeroDeviceResult
    => LET N == Len(opt.device_times)
           net(k) == NetAt(opt.network_times, N, k)
           edge(k) == SumRange(opt.edge_times, k + 1, N)
           best == opt.result.best_k
       IN  /\ best = N <=> \A k \in 0..(N - 1) : net(N) < net(k) + edge(k)
           /\ (/\ opt.network_times.scalar \/ Len(opt.network_times.v) \in {1, N}
               /\ opt.edge_times[N] = 0)
              => best < N
           /\ \A k \in 0..N : net(best) + edge(best) <= net(k) + edge(k)
           /\ \A k \in 0..N : k < best => net(best) + edge(best) < net(k) + edge(k)

\* zero device times, a net vector of N entries (net[N] = net[N-1]) and a
\* last edge layer that costs nothing: a split below N is returned
C20_Witness ==
    /\ ZeroDeviceResult
    /\ ~opt.network_times.scalar
    /\ Len(opt.network_times.v) = Len(opt.device_times)
    /\ Len(opt.device_times) = MaxN
    /\ opt.edge_times[Len(opt.edge_times)] = 0
    /\ opt.result.best_k < Len(opt.device_times)


(***************************************************************************)
(* Properties of the timing stores (SpecTimes)                             *)
(***************************************************************************)
\* C21: after edge initialisation and after any sequence of accepted device
\* reports and edge suffix executions, every entry of the device timing
\* store and of the edge timing store is greater than 0.
C21_TimesPositive ==
    phase = "serving"
    => /\ \A l \in DOMAIN device_inference_times : device_inference_times[l] > 0
       /\ \A l \in DOMAIN edge_inference_times : edge_inference_times[l] > 0


(***************************************************************************)
(* Properties of the served split index (Spec)                             *)
(***************************************************************************)
\* -1 (local only) and the splits 0..N of a model of N layers
ValidSplits == {-1} \cup 0..NumLayers

\* C22: in every reachable state the split index the server holds and
\* serves on GET offloading_layer, and the one it returns for a handled
\* report, is -1 or an integer in 0..N.
C22_ServedSplitInRange ==
    /\ best_offloading_layer \in ValidSplits
    /\ response.op = "offloading_layer"
       => response.offloading_layer_index \in ValidSplits
    /\ (response.op = "device_inference_result" /\ response.status = 200)
       => response.returned[1] \in ValidSplits

\* a GET that serves N, the split of a device that runs every layer, after
\* a report was handled
C22_Witness ==
    /\ response.op = "offloading_layer"
    /\ response.offloading_layer_index = NumLayers
    /\ n_reports > 0


(***************************************************************************)
(* Properties of the HTTP status of a report (Spec)                        *)
(***************************************************************************)
\* C23: a device_inference_result whose payload is malformed (the parser
\* raises) is answered with a 4xx status, and a failure inside the handler
\* (a layer runtime error) with a 5xx status.
C23_StatusClasses ==
    response.op = "device_inference_result"
    => /\ response.stage = "parse" => response.status \in 400..499
       /\ response.layer_error => response.status \in 500..599


(***************************************************************************)
(* Properties of the start of the edge process (SpecStartup)               *)
(***************************************************************************)
\* C24: after startup the edge synchronises with NTP again every 10
\* minutes for as long as it runs: once a synchronisation has succeeded a
\* Timer for the next one is pending, and after u periods of 600 s the edge
\* has synchronised 1 + u times.
C24_NtpResync ==
    ntp_syncs >= 1
    => /\ ntp_timers >= 1
       /\ start_pc = "listening" => ntp_syncs = 1 + uptime

\* C25: a failing NTP server never stalls request handling: once the
\* constructor asks for the time, the edge eventually listens and answers
\* requests, even if every NTP request fails.  (Stated for the runs in
\* which the process is not ended by an error of the socket layer.)
C25_NtpFailureNoStall ==
    (start_pc = "ntp_request") ~> (start_pc \in {"listening", "aborted"})

\* C28: an invalid local inference probability (outside 0..1, or no number)
\* or a missing model configuration is rejected when the edge starts: the
\* edge never listens with such a configuration, and no report is handled
\* under an enabled local inference mode whose probability is invalid.
C28_ConfigRejectedAtStartup ==
    /\ start_pc = "listening"
       => /\ settings.model_config
          /\ settings.local_inference_mode.probability.kind = "number"
    /\ (response.op = "device_inference_result" /\ local_inference_enabled)
       => local_inference_probability \in 0..100

(***************************************************************************)
(* Properties of the split between the device and the edge                 *)
(***************************************************************************)
\* the layers Edge.run_inference evaluates when it is handed the split k,
\* with the times of Edge.initialization in the file and no layer raising
EdgeLayersFor(k) ==
    run_inference(k, << >>, [l \in Layers |-> InitEdgeTime], NumLayers, RefEnv(k))

\* C26: the split index k handed to a device is the number of layers the
\* device executes: after run_split_inference with 0 <= k <= N the device
\* has executed k layers and the edge evaluates the other N - k (none of
\* them with k = N, all of them with k = 0).
C26_SplitIsDeviceLayerCount ==
    (inference.op = "run_split_inference" /\ inference.stop_layer \in 0..NumLayers)
    => /\ Cardinality(inference.layers) = inference.stop_layer
       /\ ~EdgeLayersFor(inference.stop_layer).raised
       /\ Len(EdgeLayersFor(inference.stop_layer).evaluated)
              = NumLayers - inference.stop_layer


\* the fields of a parsed report other than the client id are those the
\* client packed
WireFieldsKept ==
    wire.pc = "parsed"
    => LET a == wire.args[1]
           m == wire.message[1]
       IN  /\ m.ok
           /\ m.timestamp = a.timestamp
           /\ m.message_id = a.message_id
           /\ m.offloading_layer_index = a.layer_index
           /\ m.layer_output = a.output_data
           /\ m.layers_inference_time = a.inference_times

\* C27: wire round trip: for every client_id of at most 9 ASCII characters,
\* every message_id of 4 characters, every split k (-1 included), every
\* activation and every list of per-layer times, the server decodes the
\* report the client built into the same client_id, message_id, k,
\* activation and per-layer times.
C27_WireRoundTrip ==
    wire.pc = "parsed"
    => /\ WireFieldsKept
       /\ wire.message[1].device_id = wire.args[1].client_id


(***************************************************************************)
(* Order of the reports of a client (SpecMqttTimed)                        *)
(***************************************************************************)
\* the ids of the tasks of a queue or of the answers published, in order
IdsOf(q) == [j \in DOMAIN q |-> q[j].id]
Ascending(ids) == \A i, j \in DOMAIN ids : i < j => ids[i] < ids[j]

\* a turn of the worker: a task has left the queue
TaskTaken == Len(task_queue') < Len(task_queue)

\* the k* of the optimiser for the report rep over the stores as they are
\* after the step
OptimumAfter(rep) ==
    LET body == body_of[rep]
        md == ExtendMessageData(from_raw[body], Now, body)
        sizes_list == StoreValues(layers_sizes')
    IN  static_offloading(md.avg_speed, Len(sizes_list), sizes_list,
                          StoreValues(device_inference_times'),
                          StoreValues(edge_inference_times')).best

\* C29: the device timings of a report are all applied and persisted
\* before the optimiser computes the k* returned for that report, and the
\* reports are handled one at a time in arrival order: the worker takes the
\* task that on_message queued first, the k* it returns is the optimum over
\* the stores that hold the report's own times, and the handling is
\* followed by exactly one publish, of that k*, after the answers of the
\* reports that arrived earlier.
C29_UpdatesBeforeOptimiserInOrder ==
    /\ [](Ascending(IdsOf(task_queue)) /\ Ascending(IdsOf(published)))
    /\ [](\A i \in DOMAIN published :
              (\A j \in DOMAIN task_queue : published[i].id < task_queue[j].id))
    /\ [][TaskTaken
          => LET task == Head(task_queue)
                 upd == ApplyDeviceTimes([store |-> device_inference_times,
                                          vd |-> Detector], task.rep.times, 0)
             IN  /\ task_queue' = Tail(task_queue)
                 /\ response'.op = "device_inference_result"
                 /\ response'.stage # "parse"
                    => device_inference_times' = upd.store
                 /\ response'.status = 200
                    => /\ ~response'.forced
                          => response'.returned[1] = OptimumAfter(task.rep)
                       /\ published' =
                              Append(published,
                                     [id |-> task.id,
                                      offloading_layer_index |->
                                          response'.returned[1]])
                 /\ response'.status # 200 => published' = published]_vars

\* two reports that carry a time of layer 0 have been handled and answered
\* in the order of their arrival, the second one after a change of the
\* stored time by the first
C29_Witness ==
    /\ Len(published) = 2
    /\ published[1].id = 1
    /\ published[2].id = 2
    /\ response.op = "device_inference_result"
    /\ response.status = 200
    /\ device_inference_times[0] \notin {InitDeviceTime} \cup DeviceRaw
    /\ task_queue # << >>


ReportHandled ==
    /\ response'.op = "device_inference_result"
    /\ n_reports' = n_reports + 1

\* C31: handling a device report removes no entry of the timing stores and
\* changes only the device entries of the layers the report carries times
\* for: with times for the layers 0..m-1 the device entries of the layers
\* j >= m, the edge entries of the layers that were not executed on the edge
\* and the layer sizes are as they were.
C31_ReportFrame ==
    [][ReportHandled
       => LET m == Len(response'.sent_times)
              evaluated == {response'.evaluated[j] : j \in DOMAIN response'.evaluated}
          IN  /\ DOMAIN device_inference_times \subseteq DOMAIN device_inference_times'
              /\ DOMAIN device_inference_times'
                     \subseteq (DOMAIN device_inference_times) \cup 0..(m - 1)
              /\ \A j \in DOMAIN device_inference_times :
                     j >= m => device_inference_times'[j] = device_inference_times[j]
              /\ DOMAIN edge_inference_times' = DOMAIN edge_inference_times
              /\ \A j \in DOMAIN edge_inference_times :
                     j \notin evaluated
                     => edge_inference_times'[j] = edge_inference_times[j]
              /\ layers_sizes' = layers_sizes]_vars

\* a report with a time for layer 0 only and the split 0 has been handled:
\* the device entry of layer 0 has moved, that of layer 1 has not, and the
\* edge has executed layer 1
C31_Witness ==
    /\ response.op = "device_inference_result"
    /\ response.status = 200
    /\ Len(response.sent_times) = 1
    /\ response.evaluated = <<1>>
    /\ 0 \in DOMAIN device_inference_times
    /\ (NumLayers - 1) \in DOMAIN device_inference_times
    /\ device_inference_times[0] # InitDeviceTime
    /\ device_inference_times[NumLayers - 1] = InitDeviceTime
    /\ edge_inference_times[0] = InitEdgeTime

(***************************************************************************)
(* Properties of two reports handled in both orders (SpecOrder)            *)
(***************************************************************************)
\* C32: handling the same two device reports in either order yields the
\* same final device timing store.
C32_OrdersAgree ==
    pair.pc = "done" => pair.ab = pair.ba

\* C32 as the handler has it: either order populates the same layers, and
\* leaves the same value in every layer that at most one of the two reports
\* times or that both time equally; a layer the two reports time
\* differently keeps more of the report handled last when the store had
\* the layer, and more of the report handled first when it had not.
C32_OrdersAgreeOnEqualTimes ==
    pair.pc = "done"
    => LET ab == pair.ab[1]
           ba == pair.ba[1]
           a == pair.first
           b == pair.second
       IN  /\ DOMAIN ab = DOMAIN ba
           /\ \A l \in DOMAIN ab :
                  \/ (l < Len(a) /\ l < Len(b) /\ a[l + 1] # b[l + 1])
                  \/ ab[l] = ba[l]
           /\ \A l \in DOMAIN ab :
                  (l < Len(a) /\ l < Len(b) /\ a[l + 1] < b[l + 1])
                  => IF l \in DOMAIN device_inference_times
                     THEN ab[l] > ba[l]
                     ELSE ab[l] < ba[l]

C32_Witness ==
    /\ pair.pc = "done"
    /\ pair.first = <<1 * Scale, 3 * Scale>>
    /\ pair.second = <<3 * Scale>>
    /\ device_inference_times # << >>
    /\ pair.ab[1][1] = pair.ba[1][1]
    /\ pair.ab[1][0] # pair.ba[1][0]

(***************************************************************************)
(* Properties of the variance detector, second part (SpecDetector)         *)
(***************************************************************************)
\* a measurement of layer l turns `histories` into `after`: the history of
\* l is the last min(n, W) of its n measurements, the others are untouched
FifoStep(histories, after, l) ==
    LET old == HistoryOf(histories, l)
        n == Len(old) + 1
        keep == Min(n, window_size)
    IN  /\ DOMAIN after = (DOMAIN histories) \cup {l}
        /\ \A j \in (DOMAIN histories) \ {l} : after[j] = histories[j]
        /\ Len(after[l]) = keep
        /\ keep <= window_size
        /\ \E t \in DetectorTimes :
               \A i \in 1..keep : after[l][i] = Append(old, t)[n - keep + i]

\* C36: each per-layer, per-side history is a bounded FIFO created on the
\* first measurement of the layer: a measurement of layer l appends to the
\* history of l on that side and, when it held W measurements, drops the
\* oldest one, so that the history is the last min(n, W) measurements in
\* arrival order and never longer than W; nothing else changes a history.
C36_BoundedFifo ==
    [][IF n_measurements' = n_measurements + 1
          /\ measured'.op = "add_device_measurement"
       THEN /\ FifoStep(device_histories, device_histories', measured'.layer_id)
            /\ edge_histories' = edge_histories
       ELSE IF n_measurements' = n_measurements + 1
               /\ measured'.op = "add_edge_measurement"
       THEN /\ FifoStep(edge_histories, edge_histories', measured'.layer_id)
            /\ device_histories' = device_histories
       ELSE /\ device_histories' = device_histories
            /\ edge_histories' = edge_histories]_vars

\* a fourth measurement of layer 0 on a window of three
C36_Witness ==
    /\ n_measurements = DetectorWindow + 1
    /\ measured.op = "add_device_measurement"
    /\ DOMAIN device_histories = {0}
    /\ edge_histories = << >>
    /\ Len(device_histories[0]) = DetectorWindow
    /\ device_histories[0][DetectorWindow] = 20
    /\ device_histories[0][1] = 40

\* C33: the unstable set of each side is level-triggered: layer i belongs to
\* it exactly when the current window of layer i on that side holds at
\* least 3 samples with CV above the threshold; no readout clears it.
C33_UnstableSetIsLevel ==
    /\ \A l \in DetectorLayers :
           l \in device_variance_layers
           <=> HasSignificantVariance(HistoryOf(device_histories, l))
    /\ \A l \in DetectorLayers :
           l \in edge_variance_layers
           <=> HasSignificantVariance(HistoryOf(edge_histories, l))

(***************************************************************************)
(* Properties of the edge suffix run inside the handler (SpecTimes)        *)
(***************************************************************************)
\* C34: every layer the edge evaluates during a suffix run adds one
\* measurement to the edge history of that layer in the variance detector
\* of the request handler.
C34_EdgeRunFeedsDetector ==
    [][ReportHandled
       => \A j \in DOMAIN response'.evaluated :
              LET l == response'.evaluated[j]
              IN  /\ l \in DOMAIN edge_histories'
                  /\ Len(edge_histories'[l])
                         = Len(HistoryOf(edge_histories, l)) + 1]_vars

(***************************************************************************)
(* Properties of the cache of layer runtimes (SpecCache)                   *)
(***************************************************************************)
\* C35: over the lifetime of the edge process the runtime of each layer is
\* constructed at most once; later evaluations of the layer, in the same
\* or in a later inference, reuse the cached object.
C35_LoadedAtMostOnce ==
    \A l \in DOMAIN interpreters.created : interpreters.created[l] <= 1

(***************************************************************************)
(* Properties of two executions of the handler (SpecTwin)                  *)
(***************************************************************************)
\* C37: the k* returned for a device report does not depend on the variance
\* detector: two executions on the same timing stores and the same report
\* that differ in the detector's histories, unstable sets or flags return
\* the same k* (or fail alike) and leave the same timing stores.
C37_DetectorDoesNotDecide ==
    (twin.pc = "done" /\ twin.input[1].draw_left = twin.input[1].draw_right)
    => LET l == twin.left[1]
           r == twin.right[1]
       IN  /\ l.raised = r.raised
           /\ l.returned = r.returned
           /\ l.device_store = r.device_store
           /\ l.edge_store = r.edge_store

\* a new detector and one whose flag is raised, and an optimiser's split
C37_Witness ==
    /\ twin.pc = "done"
    /\ twin.input[1].draw_left = twin.input[1].draw_right
    /\ twin.input[1].vd_left = FreshDetector
    /\ twin.input[1].vd_right.device_needs_retest
    /\ ~twin.left[1].retest
    /\ twin.right[1].retest
    /\ twin.left[1].vd # twin.right[1].vd
    /\ ~twin.left[1].forced
    /\ twin.left[1].returned # << >>
    /\ twin.left[1].returned = twin.right[1].returned

\* the refresher fires in the left execution and not in the right one
GateFiresLeftOnly ==
    LET in == twin.input[1]
    IN  /\ twin.pc = "done"
        /\ in.vd_left = in.vd_right
        /\ twin.right[1].stage \in {"done", "optimiser"}
        /\ local_inference_enabled
        /\ in.draw_left < local_inference_probability
        /\ ~(in.draw_right < local_inference_probability)

\* C39: when the refresher gate fires only the returned split index is
\* overridden: the device-timing updates, the detector's measurements, the
\* edge suffix execution and the evaluation-log append are those of the
\* execution in which it does not fire, and the optimiser is not invoked
\* (its errors cannot occur).
C39_GateOverridesOnlySplit ==
    GateFiresLeftOnly
    => LET l == twin.left[1]
           r == twin.right[1]
       IN  /\ l.forced /\ ~r.forced
           /\ l.returned = << -1 >>
           /\ ~l.raised /\ l.stage = "done"
           /\ l.device_store = r.device_store
           /\ l.vd = r.vd
           /\ l.retest = r.retest
           /\ l.edge_store = r.edge_store
           /\ l.evaluated = r.evaluated
           /\ l.prediction = r.prediction
           /\ l.log = r.log

\* the edge ran a suffix, the log got its row, and the optimiser, had it
\* been asked, would have failed
C39_Witness ==
    /\ GateFiresLeftOnly
    /\ twin.left[1].evaluated # << >>
    /\ Len(twin.left[1].log) = 1
    /\ twin.left[1].device_store # device_inference_times
    /\ twin.left[1].returned = << -1 >>
    /\ twin.right[1].stage = "optimiser"

(***************************************************************************)
(* Properties of the served split index (Spec)                             *)
(***************************************************************************)
\* C38: the served split index is one value for the whole process: it
\* starts as the configured last_offloading_layer, a successfully handled
\* report of any client replaces it by the k* returned, nothing else (a
\* failed report, a GET, a registration) changes it, and GET
\* offloading_layer returns it for every client_id.
C38_ServedIsProcessWide ==
    /\ best_offloading_layer = last_offloading_layer
    /\ [][IF ReportHandled /\ response'.status = 200
          THEN best_offloading_layer' = response'.returned[1]
          ELSE best_offloading_layer' = best_offloading_layer]_vars
    /\ [](IsSplitResponse
          => response.offloading_layer_index = best_offloading_layer)

\* a client that has not reported is served the split another client's
\* report produced
C38_Witness ==
    /\ IsSplitResponse
    /\ last_k[response.client_id] = << >>
    /\ \E c \in Clients :
           /\ c # response.client_id
           /\ last_k[c] # << >>
           /\ last_k[c][1] = response.offloading_layer_index
    /\ response.offloading_layer_index # last_offloading_layer

(***************************************************************************)
(* Properties of the simulation runner (SpecSim)                           *)
(***************************************************************************)
\* C40: every started client process runs with the client_id the runner
\* configured for it (generated for client 0, sim_client_i for client i),
\* and no two clients share an id, however the runner's writes of the
\* configuration file and the clients' reads of it interleave.
C40_ClientsGetTheirIds ==
    /\ \A c \in DOMAIN sim.clients :
           sim.clients[c].pc \notin {"not started", "importing"}
           => /\ sim.clients[c].pc = "running"
              /\ sim.clients[c].client_id = ConfiguredId(c)
    /\ \A c, d \in DOMAIN sim.clients :
           (c # d /\ sim.clients[c].pc = "running" /\ sim.clients[d].pc = "running")
           => sim.clients[c].client_id # sim.clients[d].client_id

====
